---- MODULE Spec2Model ----
(***************************************************************************)
(* A model of the go-digicert-tlm client: request construction             *)
(* (Client.NewRequest), the request/response helper (Client.Do,            *)
(* Client.checkError), the error predicates of errors.go and the service   *)
(* methods that build a path, add query parameters and delegate to Do.     *)
(*                                                                         *)
(* Strings are sequences of tokens.  A token is one of the characters the  *)
(* URL code treats specially ("/", ".", "?", "#", ":", a control           *)
(* character) or an atom of ordinary letters ("a", "mpki", ...).  The      *)
(* token "%23" is the percent-encoding of "#".                             *)
(***************************************************************************)
EXTENDS Integers, Sequences, FiniteSets, TLC

VARIABLES ctor, made, client, calls, served, started, answered

vars == <<ctor, made, client, calls, served, started, answered>>

----------------------------------------------------------------------------
(* Bounds *)

\* longest path / ID string the caller passes
MaxLen == 2
\* number of goroutines calling the shared client at the same time
NumGoroutines == 2
\* number of service calls one run of the caller starts
MaxCalls == 2
\* largest Offset / Limit value the caller passes
MaxPage == 1
\* number of calls the sequential caller makes one after the other
MaxSeqCalls == 2

\* the options a caller passes to one NewClient call, at most
MaxOpts == 2

----------------------------------------------------------------------------
(* Generic string helpers (package strings) *)

Nil == "nil"

CTL == "\\x7f"

RECURSIVE IndexOf(_, _, _)
\* index of the first occurrence of token t in s at or after position i, 0 if none
IndexOf(s, t, i) ==
    IF i > Len(s) THEN 0
    ELSE IF s[i] = t THEN i
    ELSE IndexOf(s, t, i + 1)

RECURSIVE LastIndexOf(_, _, _)
\* index of the last occurrence of token t in s at or before position i, 0 if none
LastIndexOf(s, t, i) ==
    IF i < 1 THEN 0
    ELSE IF s[i] = t THEN i
    ELSE LastIndexOf(s, t, i - 1)

Contains(s, t) == IndexOf(s, t, 1) # 0

Count(s, t) == Cardinality({i \in 1..Len(s) : s[i] = t})

HasPrefix(s, t) == Len(s) >= 1 /\ s[1] = t

HasSuffix(s, t) == Len(s) >= 1 /\ s[Len(s)] = t

TrimPrefix(s, t) == IF HasPrefix(s, t) THEN SubSeq(s, 2, Len(s)) ELSE s

\* strings.Cut(s, t): the text before and after the first t
CutBefore(s, t) == IF Contains(s, t) THEN SubSeq(s, 1, IndexOf(s, t, 1) - 1) ELSE s

CutAfter(s, t) == IF Contains(s, t) THEN SubSeq(s, IndexOf(s, t, 1) + 1, Len(s)) ELSE <<>>

RECURSIVE Split(_, _)
\* strings.Split(s, t): the sequence of the pieces of s between occurrences of t
Split(s, t) ==
    IF Contains(s, t) THEN <<CutBefore(s, t)>> \o Split(CutAfter(s, t), t)
    ELSE <<s>>

RECURSIVE Digits(_)
Digits(n) ==
    IF n < 10 THEN <<ToString(n)>>
    ELSE Digits(n \div 10) \o <<ToString(n % 10)>>

\* fmt.Sprintf("%d", n)
FormatInt(n) == IF n < 0 THEN <<"-">> \o Digits(0 - n) ELSE Digits(n)

----------------------------------------------------------------------------
(* net/url as Client.NewRequest uses it *)

Special == {"/", ".", "?", "#", ":", CTL, "%23", "%7F"}

RECURSIVE SchemeEnd(_, _)
\* url.getScheme: position of the ":" that ends the scheme, 0 when the text
\* has no scheme, -1 when it starts with ":" (missing protocol scheme)
SchemeEnd(s, i) ==
    IF i > Len(s) THEN 0
    ELSE IF s[i] = ":" THEN (IF i = 1 THEN -1 ELSE i)
    ELSE IF s[i] = "." THEN (IF i = 1 THEN 0 ELSE SchemeEnd(s, i + 1))
    ELSE IF s[i] \in Special THEN 0
    ELSE SchemeEnd(s, i + 1)

\* url.unescape on the tokens of a fragment
Unescape(s) ==
    [i \in 1..Len(s) |-> IF s[i] = "%23" THEN "#" ELSE IF s[i] = "%7F" THEN CTL ELSE s[i]]

\* url.escape(s, encodeFragment); URL.EscapedFragment
EscapeFragment(s) ==
    [i \in 1..Len(s) |-> IF s[i] = "#" THEN "%23" ELSE IF s[i] = CTL THEN "%7F" ELSE s[i]]

NoURL ==
    [Scheme |-> <<>>, Opaque |-> <<>>, Host |-> <<>>, Path |-> <<>>,
     ForceQuery |-> FALSE, RawQuery |-> <<>>, Fragment |-> <<>>]

\* url.parseAuthority and what follows it in url.parse: host and path
parseAuthority(scheme, auth, force, query, frag) ==
    [err |-> Nil,
     url |-> [Scheme |-> scheme, Opaque |-> <<>>, Host |-> CutBefore(auth, "/"),
              Path |-> IF Contains(auth, "/")
                       THEN SubSeq(auth, IndexOf(auth, "/", 1), Len(auth)) ELSE <<>>,
              ForceQuery |-> force, RawQuery |-> query, Fragment |-> frag]]

\* url.parse once scheme and query are cut off: an opaque URL, a first path
\* segment with a colon (an error), an authority, or a plain path
parseHier(scheme, rest, force, query, frag) ==
    IF ~HasPrefix(rest, "/") /\ scheme # <<>>
    THEN [err |-> Nil,
          url |-> [NoURL EXCEPT !.Scheme = scheme, !.Opaque = rest, !.ForceQuery = force,
                                !.RawQuery = query, !.Fragment = frag]]
    ELSE IF ~HasPrefix(rest, "/") /\ Contains(CutBefore(rest, "/"), ":")
    THEN [err |-> "parse", url |-> NoURL]
    ELSE IF Len(rest) >= 2 /\ rest[1] = "/" /\ rest[2] = "/"
            /\ (scheme # <<>> \/ ~(Len(rest) >= 3 /\ rest[3] = "/"))
    THEN parseAuthority(scheme, SubSeq(rest, 3, Len(rest)), force, query, frag)
    ELSE [err |-> Nil,
          url |-> [Scheme |-> scheme, Opaque |-> <<>>, Host |-> <<>>, Path |-> rest,
                   ForceQuery |-> force, RawQuery |-> query, Fragment |-> frag]]

\* url.parse once the scheme is cut off: a lone trailing "?" sets ForceQuery,
\* otherwise the text after the first "?" is the raw query
parseRest(scheme, rest, frag) ==
    IF HasSuffix(rest, "?") /\ Count(rest, "?") = 1
    THEN parseHier(scheme, SubSeq(rest, 1, Len(rest) - 1), TRUE, <<>>, frag)
    ELSE parseHier(scheme, CutBefore(rest, "?"), FALSE, CutAfter(rest, "?"), frag)

\* url.parse after getScheme returned se
parseScheme(u, se, frag) ==
    IF se = -1 THEN [err |-> "parse", url |-> NoURL]
    ELSE IF se > 0 THEN parseRest(SubSeq(u, 1, se - 1), SubSeq(u, se + 1, Len(u)), frag)
    ELSE parseRest(<<>>, u, frag)

\* url.parse(u, false) followed by setFragment(frag)
parse(u, frag) ==
    IF Contains(u, CTL) THEN [err |-> "parse", url |-> NoURL]
    ELSE parseScheme(u, SchemeEnd(u, 1), frag)

\* url.Parse: [err, url]
Parse(rawURL) == parse(CutBefore(rawURL, "#"), Unescape(CutAfter(rawURL, "#")))

\* the text url.resolvePath has written after element elem: "." writes
\* nothing, ".." removes the last element written, any other element is
\* appended after a "/" (none before the first)
WriteElem(elem, dst, first) ==
    IF elem = <<".">> THEN dst
    ELSE IF elem = <<".", ".">>
    THEN IF LastIndexOf(Tail(dst), "/", Len(dst) - 1) = 0 THEN <<"/">>
         ELSE <<"/">> \o SubSeq(Tail(dst), 1, LastIndexOf(Tail(dst), "/", Len(dst) - 1) - 1)
    ELSE dst \o (IF first THEN <<>> ELSE <<"/">>) \o elem

\* whether the element after elem is written without a separating "/"
FirstAfter(elem, dst, first) ==
    IF elem = <<".", ".">>
    THEN IF LastIndexOf(Tail(dst), "/", Len(dst) - 1) = 0 THEN TRUE ELSE first
    ELSE FALSE

RECURSIVE ResolveElems(_, _, _)
\* the loop of url.resolvePath over the "/"-separated elements: dst is the
\* text written so far (it starts as "/"), first tells whether the next
\* element is written without a separating "/"
ResolveElems(elems, dst, first) ==
    IF Len(elems) = 0 THEN dst
    ELSE ResolveElems(Tail(elems), WriteElem(Head(elems), dst, first),
                      FirstAfter(Head(elems), dst, first))

\* the end of url.resolvePath: the leading "/" of the text written is dropped
\* when a second one follows it
resolveTrim(r) == IF Len(r) > 1 /\ r[2] = "/" THEN Tail(r) ELSE r

\* url.resolvePath on the joined path: a last element "." or ".." leaves a
\* trailing "/"
resolveFull(full, elems) ==
    IF full = <<>> THEN <<>>
    ELSE IF elems[Len(elems)] \in {<<".">>, <<".", ".">>}
    THEN resolveTrim(ResolveElems(elems, <<"/">>, TRUE) \o <<"/">>)
    ELSE resolveTrim(ResolveElems(elems, <<"/">>, TRUE))

\* the path url.resolvePath joins: the base up to its last "/" and the
\* reference, or the reference alone when it is absolute
JoinPath(base, ref) ==
    IF ref = <<>> THEN base
    ELSE IF ref[1] # "/" THEN SubSeq(base, 1, LastIndexOf(base, "/", Len(base))) \o ref
    ELSE ref

\* url.resolvePath(base, ref)
resolvePath(base, ref) == resolveFull(JoinPath(base, ref), Split(JoinPath(base, ref), "/"))

\* URL.ResolveReference for a reference without scheme, host or user
ResolveReference(base, ref) ==
    [Scheme |-> base.Scheme, Opaque |-> <<>>, Host |-> base.Host,
     Path |-> resolvePath(base.Path, ref.Path),
     ForceQuery |-> ref.ForceQuery, RawQuery |-> ref.RawQuery,
     Fragment |-> ref.Fragment]

\* URL.String
URLString(u) ==
    (IF u.Scheme # <<>> THEN u.Scheme \o <<":">> ELSE <<>>)
    \o (IF u.Opaque # <<>> THEN u.Opaque
        ELSE (IF (u.Scheme # <<>> \/ u.Host # <<>>) /\ (u.Host # <<>> \/ u.Path # <<>>)
              THEN <<"/", "/">> \o u.Host ELSE <<>>)
             \o (IF u.Path # <<>> /\ u.Path[1] # "/" /\ u.Host # <<>> THEN <<"/">> ELSE <<>>)
             \o u.Path)
    \o (IF u.ForceQuery \/ u.RawQuery # <<>> THEN <<"?">> \o u.RawQuery ELSE <<>>)
    \o (IF u.Fragment # <<>> THEN <<"#">> \o EscapeFragment(u.Fragment) ELSE <<>>)

----------------------------------------------------------------------------
(* client.go: constants, NewClient and its options *)

DefaultBaseURL == <<"https", ":", "/", "/", "one.digicert.com">>

APIVersion == <<"v1">>

UserAgent == "go-digicert/1.0"

DefaultHTTPClient == "http.Client{Timeout: 30s}"

\* WithHTTPClient(httpClient)
WithHTTPClient(c, httpClient) ==
    IF httpClient = Nil THEN [c |-> c, err |-> "HTTP client cannot be nil"]
    ELSE [c |-> [c EXCEPT !.client = httpClient], err |-> Nil]

\* the assignment of WithBaseURL once url.Parse returned r
SetBaseURL(c, r) ==
    IF r.err # Nil THEN [c |-> c, err |-> "invalid base URL"]
    ELSE [c |-> [c EXCEPT !.BaseURL = r.url], err |-> Nil]

\* WithBaseURL(baseURL)
WithBaseURL(c, baseURL) == SetBaseURL(c, Parse(baseURL))

\* WithUserAgent leaving the default in place for the empty string
WithUserAgentUnlessEmpty(c, userAgent) ==
    IF userAgent = "" THEN [c |-> c, err |-> Nil]
    ELSE [c |-> [c EXCEPT !.UserAgent = userAgent], err |-> Nil]

\* WithUserAgent(userAgent)
WithUserAgent(c, userAgent) == [c |-> [c EXCEPT !.UserAgent = userAgent], err |-> Nil]

\* one ClientOption applied to the client under construction
ApplyOption(c, opt) ==
    CASE opt.kind = "WithHTTPClient" -> WithHTTPClient(c, opt.arg)
      [] opt.kind = "WithBaseURL"    -> WithBaseURL(c, opt.arg)
      [] opt.kind = "WithUserAgent"  -> WithUserAgent(c, opt.arg)

\* the nil *Client
NilClient == [nil |-> TRUE]

RECURSIVE ApplyOptions(_, _)

\* the option loop going on after an option returned an error
AfterOptionGoesOn(r, opts) == ApplyOptions(r.c, opts)

\* NewClient after an option returned r: an error ends the construction
AfterOption(r, opts) ==
    IF r.err # Nil THEN [c |-> NilClient, err |-> r.err, ran |-> <<>>]
    ELSE ApplyOptions(r.c, opts)

\* r, with opt recorded as an option NewClient invoked before the ones of r
Invoked(opt, r) == [r EXCEPT !.ran = <<opt>> \o @]

\* the loop over opts in NewClient: stops at the first failing option
ApplyOptions(c, opts) ==
    IF Len(opts) = 0 THEN [c |-> c, err |-> Nil, ran |-> <<>>]
    ELSE Invoked(Head(opts), AfterOption(ApplyOption(c, Head(opts)), Tail(opts)))

\* NewClient without the test of the key
NewClientAnyKey(apiKey, opts) ==
    ApplyOptions([client |-> DefaultHTTPClient,
                  BaseURL |-> Parse(DefaultBaseURL).url,
                  UserAgent |-> UserAgent,
                  apiKey |-> apiKey], opts)

\* NewClient(apiKey, opts...): the client and the error it returns, and the
\* options it invoked, in order
NewClient(apiKey, opts) ==
    IF apiKey = "" THEN [c |-> NilClient, err |-> "API key is required", ran |-> <<>>]
    ELSE ApplyOptions([client |-> DefaultHTTPClient,
                       BaseURL |-> Parse(DefaultBaseURL).url,
                       UserAgent |-> UserAgent,
                       apiKey |-> apiKey], opts)

----------------------------------------------------------------------------
(* client.go: Client.NewRequest *)

InvalidMethods == {"BAD METHOD"}

\* "var buf io.ReadWriter": no buffer
NoBuffer == [nil |-> TRUE, data |-> <<>>]

\* Content of the buffer json.NewEncoder(buf).Encode(body) fills; a body that
\* holds a value encoding/json cannot encode (a channel or function inside a
\* map[string]interface{}) makes Encode fail.  A nil pointer stored in the
\* interface is not a nil interface and encodes as null.
JSONEncode(body) ==
    IF body = "unencodable" THEN [err |-> "json", buf |-> NoBuffer]
    ELSE IF body = "nilptr" THEN [err |-> Nil, buf |-> [nil |-> FALSE, data |-> <<"null", "\n">>]]
    ELSE [err |-> Nil, buf |-> [nil |-> FALSE, data |-> <<"json", body, "\n">>]]

NoRequest ==
    [Method |-> "", URL |-> NoURL, Body |-> NoBuffer, ctx |-> Nil,
     Header |-> [ContentType |-> Nil, Accept |-> Nil, UserAgent |-> Nil, XAPIKey |-> Nil]]

\* http.NewRequestWithContext once the method is defaulted and the URL parsed
NewRequestFrom(ctx, m, r, buf) ==
    IF m \in InvalidMethods THEN [err |-> "invalid method", req |-> NoRequest]
    ELSE IF r.err # Nil THEN [err |-> r.err, req |-> NoRequest]
    ELSE [err |-> Nil,
          req |-> [Method |-> m, URL |-> r.url, Body |-> buf, ctx |-> ctx,
                   Header |-> [ContentType |-> Nil, Accept |-> Nil,
                               UserAgent |-> Nil, XAPIKey |-> Nil]]]

\* http.NewRequestWithContext(ctx, method, url, body)
NewRequestWithContext(ctx, method, url, buf) ==
    NewRequestFrom(ctx, IF method = "" THEN "GET" ELSE method, Parse(url), buf)

\* the condition of the first statement of NewRequest
NeedsSlash(c) == ~HasSuffix(c.BaseURL.Path, "/")

\* c.BaseURL.Path += "/"
AppendSlash(c) == [c EXCEPT !.BaseURL.Path = @ \o <<"/">>]

\* RelPath without strings.TrimPrefix
RelPathNoTrim(urlStr) == <<"mpki", "/", "api", "/">> \o APIVersion \o <<"/">> \o urlStr

\* fmt.Sprintf("mpki/api/%s/%s", APIVersion, strings.TrimPrefix(urlStr, "/"))
RelPath(urlStr) == <<"mpki", "/", "api", "/">> \o APIVersion \o <<"/">> \o TrimPrefix(urlStr, "/")

\* SetHeaders with the package constant in place of c.UserAgent
SetHeadersConstantAgent(c, req, body) ==
    [req EXCEPT !.Header = [ContentType |-> IF body # Nil THEN "application/json" ELSE Nil,
                            Accept |-> "application/json",
                            UserAgent |-> UserAgent,
                            XAPIKey |-> c.apiKey]]

\* SetHeaders setting Content-Type on every request
SetHeadersAlwaysContentType(c, req, body) ==
    [req EXCEPT !.Header = [ContentType |-> "application/json",
                            Accept |-> "application/json",
                            UserAgent |-> c.UserAgent,
                            XAPIKey |-> c.apiKey]]

\* SetHeaders identifying the caller by its key in the User-Agent header too
SetHeadersKeyAsAgent(c, req, body) ==
    [req EXCEPT !.Header = [ContentType |-> IF body # Nil THEN "application/json" ELSE Nil,
                            Accept |-> "application/json",
                            UserAgent |-> c.apiKey,
                            XAPIKey |-> c.apiKey]]

\* the headers NewRequest sets on the request it built
SetHeaders(c, req, body) ==
    [req EXCEPT !.Header = [ContentType |-> IF body # Nil THEN "application/json" ELSE Nil,
                            Accept |-> "application/json",
                            UserAgent |-> c.UserAgent,
                            XAPIKey |-> c.apiKey]]

\* the end of NewRequest: nr is what http.NewRequestWithContext returned
BuildHeaders(c, body, nr) ==
    IF nr.err # Nil THEN [err |-> nr.err, req |-> NoRequest]
    ELSE [err |-> Nil, req |-> SetHeaders(c, nr.req, body)]

\* NewRequest from the encoding of the body on: u is the resolved URL, enc
\* what the encoder returned
BuildEncoded(c, ctx, method, body, u, enc) ==
    IF enc.err # Nil THEN [err |-> enc.err, req |-> NoRequest]
    ELSE BuildHeaders(c, body, NewRequestWithContext(ctx, method, URLString(u), enc.buf))

\* NewRequest once url.Parse returned rel
BuildResolved(c, ctx, method, body, rel) ==
    IF rel.err # Nil THEN [err |-> rel.err, req |-> NoRequest]
    ELSE BuildEncoded(c, ctx, method, body, ResolveReference(c.BaseURL, rel.url),
                      IF body # Nil THEN JSONEncode(body) ELSE [err |-> Nil, buf |-> NoBuffer])

\* Client.NewRequest after its first statement: [err, req]
BuildRequest(c, ctx, method, urlStr, body) ==
    BuildResolved(c, ctx, method, body, Parse(RelPath(urlStr)))

----------------------------------------------------------------------------
(* The service methods: verb, path and query of every operation *)

CertificateOps ==
    {"Certificates.Issue", "Certificates.Get", "Certificates.GetCertificate",
     "Certificates.Search", "Certificates.Revoke", "Certificates.Unrevoke",
     "Certificates.Renew", "Certificates.GetAdditionalFormats", "Certificates.Pickup"}

BusinessUnitOps ==
    {"BusinessUnits.Create", "BusinessUnits.Get", "BusinessUnits.Update",
     "BusinessUnits.Delete", "BusinessUnits.List", "BusinessUnits.GetLicensedSeats",
     "BusinessUnits.AddAdmin", "BusinessUnits.RemoveAdmin", "BusinessUnits.ListAdmins"}

ProfileOps == {"Profiles.List", "Profiles.Get", "Profiles.ListPublic", "Profiles.ListTemplates"}

EnrollmentOps ==
    {"Enrollments.Create", "Enrollments.Get", "Enrollments.GetStatus", "Enrollments.Redeem",
     "Enrollments.CreateManualEnrollment", "Enrollments.RenewManualEnrollment",
     "Enrollments.ListDetails", "Enrollments.GetDetails", "Enrollments.GetByCertificate"}

CertificateOwnerOps ==
    {"CertificateOwners.Create", "CertificateOwners.Get", "CertificateOwners.Update",
     "CertificateOwners.Delete", "CertificateOwners.List",
     "CertificateOwners.AssignToCertificate", "CertificateOwners.RemoveFromCertificate"}

ServiceOps == CertificateOps \cup BusinessUnitOps \cup ProfileOps \cup EnrollmentOps
                \cup CertificateOwnerOps

\* the operations that take one ID, two IDs, a request struct, an options struct
OneIdOps ==
    {"Certificates.Get", "Certificates.GetCertificate", "Certificates.Revoke",
     "Certificates.Unrevoke", "Certificates.Renew", "Certificates.GetAdditionalFormats",
     "Certificates.Pickup", "BusinessUnits.Get", "BusinessUnits.Update",
     "BusinessUnits.Delete", "BusinessUnits.GetLicensedSeats", "BusinessUnits.AddAdmin",
     "BusinessUnits.ListAdmins", "Profiles.Get", "Enrollments.Get", "Enrollments.GetStatus",
     "Enrollments.RenewManualEnrollment", "Enrollments.GetDetails",
     "Enrollments.GetByCertificate", "CertificateOwners.Get", "CertificateOwners.Update",
     "CertificateOwners.Delete", "CertificateOwners.AssignToCertificate",
     "CertificateOwners.RemoveFromCertificate"}

TwoIdOps == {"BusinessUnits.RemoveAdmin"}

BodyOps ==
    {"Certificates.Issue", "Certificates.Revoke", "Certificates.Renew",
     "BusinessUnits.Create", "BusinessUnits.Update", "BusinessUnits.AddAdmin",
     "Enrollments.Create", "Enrollments.Redeem", "Enrollments.CreateManualEnrollment",
     "Enrollments.RenewManualEnrollment", "CertificateOwners.Create",
     "CertificateOwners.Update", "CertificateOwners.AssignToCertificate"}

ListOps ==
    {"Certificates.Search", "BusinessUnits.List", "Profiles.List",
     "Enrollments.ListDetails", "CertificateOwners.List"}

\* the operations that pass nil as v to Do and return (*Response, error)
NoResultOps ==
    {"Certificates.Revoke", "Certificates.Unrevoke", "BusinessUnits.Delete",
     "BusinessUnits.RemoveAdmin", "CertificateOwners.Delete",
     "CertificateOwners.AssignToCertificate", "CertificateOwners.RemoveFromCertificate"}

\* Verb with revocation sent as POST
VerbRevokeAsPost(op) ==
    CASE op \in {"Certificates.Issue", "Certificates.Renew", "Certificates.Pickup",
                 "Certificates.Revoke", "BusinessUnits.Create", "BusinessUnits.AddAdmin",
                 "Enrollments.Create", "Enrollments.Redeem",
                 "Enrollments.CreateManualEnrollment", "Enrollments.RenewManualEnrollment",
                 "CertificateOwners.Create"} -> "POST"
      [] op \in {"BusinessUnits.Update", "CertificateOwners.Update",
                 "CertificateOwners.AssignToCertificate"} -> "PUT"
      [] op \in {"Certificates.Unrevoke", "BusinessUnits.Delete", "BusinessUnits.RemoveAdmin",
                 "CertificateOwners.Delete", "CertificateOwners.RemoveFromCertificate"} -> "DELETE"
      [] OTHER -> "GET"

\* the HTTP method each service method passes to NewRequest
Verb(op) ==
    CASE op \in {"Certificates.Issue", "Certificates.Renew", "Certificates.Pickup",
                 "BusinessUnits.Create", "BusinessUnits.AddAdmin", "Enrollments.Create",
                 "Enrollments.Redeem", "Enrollments.CreateManualEnrollment",
                 "Enrollments.RenewManualEnrollment", "CertificateOwners.Create"} -> "POST"
      [] op \in {"Certificates.Revoke", "BusinessUnits.Update", "CertificateOwners.Update",
                 "CertificateOwners.AssignToCertificate"} -> "PUT"
      [] op \in {"Certificates.Unrevoke", "BusinessUnits.Delete", "BusinessUnits.RemoveAdmin",
                 "CertificateOwners.Delete", "CertificateOwners.RemoveFromCertificate"} -> "DELETE"
      [] OTHER -> "GET"

\* the path u each service method builds from its ID arguments
PathOf(op, id1, id2) ==
    CASE op = "Certificates.Issue" -> <<"certificate">>
      [] op = "Certificates.Get" -> <<"certificate", "/">> \o id1
      [] op = "Certificates.GetCertificate" -> <<"certificate-by-id", "/">> \o id1
      [] op = "Certificates.Search" -> <<"certificate-search">>
      [] op = "Certificates.Revoke" -> <<"certificate", "/">> \o id1 \o <<"/", "revoke">>
      [] op = "Certificates.Unrevoke" -> <<"certificate", "/">> \o id1 \o <<"/", "revoke">>
      [] op = "Certificates.Renew" -> <<"certificate", "/">> \o id1 \o <<"/", "renew">>
      [] op = "Certificates.GetAdditionalFormats" ->
            <<"certificate", "/">> \o id1 \o <<"/", "additional-formats">>
      [] op = "Certificates.Pickup" -> <<"certificate-pickup", "/">> \o id1
      [] op = "BusinessUnits.Create" -> <<"business-unit">>
      [] op \in {"BusinessUnits.Get", "BusinessUnits.Update", "BusinessUnits.Delete"} ->
            <<"business-unit", "/">> \o id1
      [] op = "BusinessUnits.List" -> <<"business-unit">>
      [] op = "BusinessUnits.GetLicensedSeats" ->
            <<"business-unit", "/">> \o id1 \o <<"/", "licensed-seats">>
      [] op \in {"BusinessUnits.AddAdmin", "BusinessUnits.ListAdmins"} ->
            <<"business-unit", "/">> \o id1 \o <<"/", "admin">>
      [] op = "BusinessUnits.RemoveAdmin" ->
            <<"business-unit", "/">> \o id1 \o <<"/", "admin", "/">> \o id2
      [] op = "Profiles.List" -> <<"profiles">>
      [] op = "Profiles.Get" -> <<"profiles", "/">> \o id1
      [] op = "Profiles.ListPublic" -> <<"profiles", "/", "public">>
      [] op = "Profiles.ListTemplates" -> <<"profiles", "/", "templates">>
      [] op = "Enrollments.Create" -> <<"enrollment">>
      [] op = "Enrollments.Get" -> <<"enrollment", "/">> \o id1
      [] op = "Enrollments.GetStatus" -> <<"enrollment", "/">> \o id1 \o <<"/", "status">>
      [] op = "Enrollments.Redeem" -> <<"enrollment", "/", "redeem">>
      [] op = "Enrollments.CreateManualEnrollment" -> <<"manual-enrollment">>
      [] op = "Enrollments.RenewManualEnrollment" ->
            <<"manual-enrollment", "/", "renew", "/">> \o id1
      [] op = "Enrollments.ListDetails" -> <<"enrollment-details">>
      [] op = "Enrollments.GetDetails" -> <<"enrollment-details", "/">> \o id1
      [] op = "Enrollments.GetByCertificate" -> <<"enrollment", "/", "certificate", "/">> \o id1
      [] op = "CertificateOwners.Create" -> <<"certificate-owners">>
      [] op \in {"CertificateOwners.Get", "CertificateOwners.Update",
                 "CertificateOwners.Delete"} -> <<"certificate-owners", "/">> \o id1
      [] op = "CertificateOwners.List" -> <<"certificate-owners">>
      [] op \in {"CertificateOwners.AssignToCertificate",
                 "CertificateOwners.RemoveFromCertificate"} ->
            <<"certificate-owners", "/", "certificate", "/">> \o id1

\* the body argument each service method passes to NewRequest
BodyOf(op, body) ==
    IF op = "Client.NewRequest" THEN body
    ELSE IF op \notin BodyOps THEN Nil
    ELSE IF op = "CertificateOwners.AssignToCertificate" /\ body = "nilptr" THEN "req"
    ELSE body

\* the kind of JSON value the v argument of Do decodes into (Nil: v is nil)
TargetOf(op) ==
    IF op \in NoResultOps THEN Nil
    ELSE IF op = "BusinessUnits.ListAdmins" THEN "array"
    ELSE "object"

----------------------------------------------------------------------------
(* Query parameters of the list and search operations (url.Values) *)

\* an options struct with every field at its zero value
ZeroOptions ==
    [isNil |-> FALSE, Offset |-> 0, Limit |-> 0, Page |-> 0, PageSize |-> 0,
     CommonName |-> "", SerialNumber |-> "", Status |-> "", ProfileID |-> "",
     Tags |-> <<>>, SortBy |-> "", SortOrder |-> "", Name |-> "", ParentID |-> "",
     IsActive |-> Nil, Type |-> "", EnrollmentMethod |-> "", Email |-> "",
     FirstName |-> "", LastName |-> ""]

\* a nil options pointer
NilOptions == [ZeroOptions EXCEPT !.isNil = TRUE]

\* a Go string field as a token sequence
Str(x) == IF x = "" THEN <<>> ELSE <<x>>

\* q.Add(key, value) whatever the condition
AddAlways(cond, key, value) == <<[k |-> key, v |-> value]>>

\* q.Add(key, value) when cond holds
AddIf(cond, key, value) == IF cond THEN <<[k |-> key, v |-> value]>> ELSE <<>>

\* fmt.Sprintf("%t", b)
FormatBool(b) == IF b THEN <<"true">> ELSE <<"false">>

\* for _, tag := range opts.Tags { q.Add("tags", tag) }
AddTags(tags) == [i \in 1..Len(tags) |-> [k |-> "tags", v |-> Str(tags[i])]]

\* the q.Add calls of CertificatesService.Search, in order
SearchQuery(opts) ==
    AddIf(opts.CommonName # "", "common_name", Str(opts.CommonName))
    \o AddIf(opts.SerialNumber # "", "serial_number", Str(opts.SerialNumber))
    \o AddIf(opts.Status # "", "status", Str(opts.Status))
    \o AddIf(opts.ProfileID # "", "profile_id", Str(opts.ProfileID))
    \o AddTags(opts.Tags)
    \o AddIf(opts.Offset > 0, "offset", FormatInt(opts.Offset))
    \o AddIf(opts.Limit > 0, "limit", FormatInt(opts.Limit))

\* BusinessUnitsService.List adding offset and limit from zero upwards
BusinessUnitListQueryFromZero(opts) ==
    AddIf(opts.Name # "", "name", Str(opts.Name))
    \o AddIf(opts.ParentID # "", "parent_id", Str(opts.ParentID))
    \o AddIf(opts.IsActive # Nil, "is_active", FormatBool(opts.IsActive = "true"))
    \o AddIf(opts.Offset >= 0 /\ opts.Limit >= 0, "offset", FormatInt(opts.Offset))
    \o AddIf(opts.Offset >= 0 /\ opts.Limit >= 0, "limit", FormatInt(opts.Limit))
    \o AddIf(opts.SortBy # "", "sort_by", Str(opts.SortBy))
    \o AddIf(opts.SortOrder # "", "sort_order", Str(opts.SortOrder))

\* the q.Add calls of BusinessUnitsService.List, in order
BusinessUnitListQuery(opts) ==
    AddIf(opts.Name # "", "name", Str(opts.Name))
    \o AddIf(opts.ParentID # "", "parent_id", Str(opts.ParentID))
    \o AddIf(opts.IsActive # Nil, "is_active", FormatBool(opts.IsActive = "true"))
    \o AddIf(opts.Offset > 0 /\ opts.Limit > 0, "offset", FormatInt(opts.Offset))
    \o AddIf(opts.Offset > 0 /\ opts.Limit > 0, "limit", FormatInt(opts.Limit))
    \o AddIf(opts.SortBy # "", "sort_by", Str(opts.SortBy))
    \o AddIf(opts.SortOrder # "", "sort_order", Str(opts.SortOrder))

\* the q.Add calls of ProfilesService.List, in order
ProfileListQuery(opts) ==
    AddIf(opts.Name # "", "name", Str(opts.Name))
    \o AddIf(opts.Type # "", "type", Str(opts.Type))
    \o AddIf(opts.Status # "", "status", Str(opts.Status))
    \o AddIf(opts.EnrollmentMethod # "", "enrollment_method", Str(opts.EnrollmentMethod))
    \o AddIf(opts.Page > 0, "page", FormatInt(opts.Page))
    \o AddIf(opts.PageSize > 0, "page_size", FormatInt(opts.PageSize))
    \o AddIf(opts.SortBy # "", "sort_by", Str(opts.SortBy))
    \o AddIf(opts.SortOrder # "", "sort_order", Str(opts.SortOrder))

\* the q.Add calls of EnrollmentsService.ListDetails, in order
EnrollmentDetailsQuery(opts) ==
    AddIf(opts.Status # "", "status", Str(opts.Status))
    \o AddIf(opts.ProfileID # "", "profile_id", Str(opts.ProfileID))
    \o AddIf(opts.Page > 0, "page", FormatInt(opts.Page))
    \o AddIf(opts.PageSize > 0, "page_size", FormatInt(opts.PageSize))
    \o AddIf(opts.SortBy # "", "sort_by", Str(opts.SortBy))
    \o AddIf(opts.SortOrder # "", "sort_order", Str(opts.SortOrder))

\* CertificateOwnersService.List sending is_active only when it is true
CertificateOwnerListQueryOnlyTrue(opts) ==
    AddIf(opts.Email # "", "email", Str(opts.Email))
    \o AddIf(opts.FirstName # "", "first_name", Str(opts.FirstName))
    \o AddIf(opts.LastName # "", "last_name", Str(opts.LastName))
    \o AddIf(opts.IsActive = "true", "is_active", FormatBool(opts.IsActive = "true"))
    \o AddIf(opts.Page > 0, "page", FormatInt(opts.Page))
    \o AddIf(opts.PageSize > 0, "page_size", FormatInt(opts.PageSize))
    \o AddIf(opts.SortBy # "", "sort_by", Str(opts.SortBy))
    \o AddIf(opts.SortOrder # "", "sort_order", Str(opts.SortOrder))

\* the q.Add calls of CertificateOwnersService.List, in order
CertificateOwnerListQuery(opts) ==
    AddIf(opts.Email # "", "email", Str(opts.Email))
    \o AddIf(opts.FirstName # "", "first_name", Str(opts.FirstName))
    \o AddIf(opts.LastName # "", "last_name", Str(opts.LastName))
    \o AddIf(opts.IsActive # Nil, "is_active", FormatBool(opts.IsActive = "true"))
    \o AddIf(opts.Page > 0, "page", FormatInt(opts.Page))
    \o AddIf(opts.PageSize > 0, "page_size", FormatInt(opts.PageSize))
    \o AddIf(opts.SortBy # "", "sort_by", Str(opts.SortBy))
    \o AddIf(opts.SortOrder # "", "sort_order", Str(opts.SortOrder))

QueryOf(op, opts) ==
    CASE op = "Certificates.Search" -> SearchQuery(opts)
      [] op = "BusinessUnits.List" -> BusinessUnitListQuery(opts)
      [] op = "Profiles.List" -> ProfileListQuery(opts)
      [] op = "Enrollments.ListDetails" -> EnrollmentDetailsQuery(opts)
      [] op = "CertificateOwners.List" -> CertificateOwnerListQuery(opts)

\* the query keys in the order url.Values.Encode writes them (sorted)
KeyOrder ==
    <<"common_name", "email", "enrollment_method", "first_name", "is_active",
      "last_name", "limit", "name", "offset", "page", "page_size", "parent_id",
      "profile_id", "serial_number", "sort_by", "sort_order", "status", "tags", "type">>

\* url.QueryEscape on the tokens of a value
QueryEscape(v) ==
    [i \in 1..Len(v) |->
        CASE v[i] = "/" -> "%2F"
          [] v[i] = "?" -> "%3F"
          [] v[i] = "#" -> "%23"
          [] v[i] = ":" -> "%3A"
          [] v[i] = CTL -> "%7F"
          [] OTHER -> v[i]]

RECURSIVE EncodePairs(_)
\* "k=v" for every pair, each preceded by "&"
EncodePairs(q) ==
    IF Len(q) = 0 THEN <<>>
    ELSE <<"&", q[1].k, "=">> \o QueryEscape(q[1].v) \o EncodePairs(Tail(q))

\* the pairs of q whose key is key, in the order they were added
PairsOf(q, key) == LET IsKey(pair) == pair.k = key IN SelectSeq(q, IsKey)

RECURSIVE EncodeKeys(_, _)
EncodeKeys(q, i) ==
    IF i > Len(KeyOrder) THEN <<>>
    ELSE EncodePairs(PairsOf(q, KeyOrder[i])) \o EncodeKeys(q, i + 1)

\* url.Values.Encode
Encode(q) == IF Len(q) = 0 THEN <<>> ELSE Tail(EncodeKeys(q, 1))

\* url.QueryUnescape on the tokens of an encoded value
QueryUnescape(v) ==
    [i \in 1..Len(v) |->
        CASE v[i] = "%2F" -> "/"
          [] v[i] = "%3F" -> "?"
          [] v[i] = "%23" -> "#"
          [] v[i] = "%3A" -> ":"
          [] v[i] = "%7F" -> CTL
          [] OTHER -> v[i]]

\* the key and the value of every "k=v" piece of a raw query
PairsIn(pieces) ==
    [i \in 1..Len(pieces) |->
        [k |-> CutBefore(pieces[i], "="), v |-> QueryUnescape(CutAfter(pieces[i], "="))]]

\* URL.Query(): the pairs of a raw query, as the receiving server reads them
ParseQuery(raw) == PairsIn(IF raw = <<>> THEN <<>> ELSE Split(raw, "&"))

\* url.Values.Has(key) on the request's query
QueryHas(raw, key) == \E i \in 1..Len(ParseQuery(raw)) : ParseQuery(raw)[i].k = <<key>>

\* the values of a sequence of pairs
ValuesOf(pairs) == [i \in 1..Len(pairs) |-> pairs[i].v]

\* all values of key in the request's query
QueryAll(raw, key) == ValuesOf(PairsOf(ParseQuery(raw), <<key>>))

\* "if opts != nil { q := httpReq.URL.Query(); ...; httpReq.URL.RawQuery = q.Encode() }"
WithQuery(req, op, opts) ==
    IF op \in ListOps /\ ~opts.isNil
    THEN [req EXCEPT !.URL.RawQuery = Encode(QueryOf(op, opts))]
    ELSE req

----------------------------------------------------------------------------
(* errors.go and Client.checkError / Client.Do *)

Absent == [t |-> "absent", v |-> <<>>]

JString(x) == [t |-> "string", v |-> <<x>>]

JNumber(n) == [t |-> "number", v |-> <<ToString(n)>>]

JStrings(xs) == [t |-> "strings", v |-> xs]

ErrNil == [type |-> "nil"]

IsErr(e) == e.type # "nil"

\* Unmarshal that accepts every JSON text and skips what does not fit
UnmarshalAPIErrorLenient(data) ==
    LET zero == [type |-> "APIError", StatusCode |-> 0, Code |-> <<>>, Message |-> <<>>,
                 Details |-> <<>>, RequestID |-> <<>>]
    IN  IF data.kind \in {"empty", "text"} THEN [err |-> "syntax", v |-> zero]
        ELSE [err |-> Nil,
              v |-> [zero EXCEPT
                       !.Code = IF data.code.t = "string" THEN data.code.v ELSE <<>>,
                       !.Message = IF data.message.t = "string" THEN data.message.v ELSE <<>>,
                       !.Details = IF data.details.t = "strings" THEN data.details.v ELSE <<>>]]

\* json.Unmarshal(data, &apiError): StatusCode is tagged json:"-" and is never
\* read from the body; any member of the wrong JSON type makes Unmarshal fail
UnmarshalAPIError(data) ==
    LET zero == [type |-> "APIError", StatusCode |-> 0, Code |-> <<>>, Message |-> <<>>,
                 Details |-> <<>>, RequestID |-> <<>>]
    IN  CASE data.kind \in {"empty", "text"} -> [err |-> "syntax", v |-> zero]
          [] data.kind = "null" -> [err |-> Nil, v |-> zero]
          [] data.kind \in {"array", "scalar"} -> [err |-> "type", v |-> zero]
          [] data.kind = "object" ->
                [err |-> IF data.code.t \in {"absent", "string"}
                            /\ data.message.t \in {"absent", "string"}
                            /\ data.details.t \in {"absent", "strings"}
                            /\ data.request_id.t \in {"absent", "string"}
                         THEN Nil ELSE "type",
                 v |-> [zero EXCEPT
                          !.Code = IF data.code.t = "string" THEN data.code.v ELSE <<>>,
                          !.Message = IF data.message.t = "string" THEN data.message.v ELSE <<>>,
                          !.Details = IF data.details.t = "strings" THEN data.details.v ELSE <<>>,
                          !.RequestID = IF data.request_id.t = "string" THEN data.request_id.v
                                        ELSE <<>>]]

\* checkError letting a numeric status member of the body stand for the status
checkErrorFromBody(StatusCode, data) ==
    LET r == UnmarshalAPIError(data)
    IN  IF r.err # Nil
        THEN [type |-> "HTTPError", StatusCode |-> StatusCode, Message |-> data]
        ELSE [r.v EXCEPT !.StatusCode = IF data.kind = "object" /\ data.status.t = "number"
                                        THEN 200 ELSE StatusCode]

\* Client.checkError(resp, data)
checkError(StatusCode, data) ==
    LET r == UnmarshalAPIError(data)
    IN  IF r.err # Nil
        THEN [type |-> "HTTPError", StatusCode |-> StatusCode, Message |-> data]
        ELSE [r.v EXCEPT !.StatusCode = StatusCode]

\* json.Unmarshal(data, v) for the result type of a service method; target is
\* the JSON kind the type decodes from, payload tells whether the members of
\* the body fit the fields of the type
UnmarshalResult(data, target) ==
    CASE data.kind \in {"empty", "text"} -> [err |-> "syntax", v |-> [state |-> "zero"]]
      [] data.kind = "null" -> [err |-> Nil, v |-> [state |-> "zero"]]
      [] data.kind = target /\ data.payload = "good" -> [err |-> Nil, v |-> [state |-> "decoded"]]
      [] data.kind = target -> [err |-> "type", v |-> [state |-> "partial"]]
      [] OTHER -> [err |-> "type", v |-> [state |-> "zero"]]

NoResponse == [present |-> FALSE, StatusCode |-> 0, read |-> FALSE]

\* Do dropping the error of c.client.Do(req)
DoDropsTransportError(outcome, target) ==
    IF outcome.kind = "error"
    THEN [resp |-> NoResponse, err |-> ErrNil, v |-> [state |-> "zero"]]
    ELSE [resp |-> [present |-> TRUE, StatusCode |-> outcome.status, read |-> outcome.readOK],
          err |-> IF outcome.status < 200 \/ outcome.status >= 300
                  THEN checkError(outcome.status, outcome.body) ELSE ErrNil,
          v |-> [state |-> "zero"]]

\* Do decoding the body whatever its length
DoDecodesEmptyBody(outcome, target) ==
    LET response == [present |-> TRUE, StatusCode |-> outcome.status, read |-> outcome.readOK]
        dec == UnmarshalResult(outcome.body, target)
        zero == [state |-> "zero"]
    IN  IF outcome.kind = "error"
        THEN [resp |-> NoResponse, err |-> [type |-> "transport", msg |-> outcome.err], v |-> zero]
        ELSE IF ~outcome.readOK
        THEN [resp |-> response, err |-> [type |-> "read", msg |-> "read"], v |-> zero]
        ELSE IF outcome.status < 200 \/ outcome.status >= 300
        THEN [resp |-> response, err |-> checkError(outcome.status, outcome.body), v |-> zero]
        ELSE IF target # Nil /\ dec.err # Nil
        THEN [resp |-> response, err |-> [type |-> "decode", msg |-> dec.err], v |-> dec.v]
        ELSE [resp |-> response, err |-> ErrNil, v |-> IF target # Nil THEN dec.v ELSE zero]

\* Do taking every status below 400 for a success
DoAcceptsRedirects(outcome, target) ==
    LET response == [present |-> TRUE, StatusCode |-> outcome.status, read |-> outcome.readOK]
        dec == UnmarshalResult(outcome.body, target)
        zero == [state |-> "zero"]
    IN  IF outcome.kind = "error"
        THEN [resp |-> NoResponse, err |-> [type |-> "transport", msg |-> outcome.err], v |-> zero]
        ELSE IF ~outcome.readOK
        THEN [resp |-> response, err |-> [type |-> "read", msg |-> "read"], v |-> zero]
        ELSE IF outcome.status < 200 \/ outcome.status >= 400
        THEN [resp |-> response, err |-> checkError(outcome.status, outcome.body), v |-> zero]
        ELSE IF target # Nil /\ outcome.body.kind # "empty" /\ dec.err # Nil
        THEN [resp |-> response, err |-> [type |-> "decode", msg |-> dec.err], v |-> dec.v]
        ELSE [resp |-> response, err |-> ErrNil,
              v |-> IF target # Nil /\ outcome.body.kind # "empty" THEN dec.v ELSE zero]

\* Do returning no Response together with the error of a non-2xx status
DoDropsResponseOnStatus(outcome, target) ==
    LET response == [present |-> TRUE, StatusCode |-> outcome.status, read |-> outcome.readOK]
        dec == UnmarshalResult(outcome.body, target)
        zero == [state |-> "zero"]
    IN  IF outcome.kind = "error"
        THEN [resp |-> NoResponse, err |-> [type |-> "transport", msg |-> outcome.err], v |-> zero]
        ELSE IF ~outcome.readOK
        THEN [resp |-> response, err |-> [type |-> "read", msg |-> "read"], v |-> zero]
        ELSE IF outcome.status < 200 \/ outcome.status >= 300
        THEN [resp |-> NoResponse, err |-> checkError(outcome.status, outcome.body), v |-> zero]
        ELSE IF target # Nil /\ outcome.body.kind # "empty" /\ dec.err # Nil
        THEN [resp |-> response, err |-> [type |-> "decode", msg |-> dec.err], v |-> dec.v]
        ELSE [resp |-> response, err |-> ErrNil,
              v |-> IF target # Nil /\ outcome.body.kind # "empty" THEN dec.v ELSE zero]

\* Client.Do(ctx, req, v) for one outcome of c.client.Do(req): [resp, err, v]
Do(outcome, target) ==
    LET response == [present |-> TRUE, StatusCode |-> outcome.status, read |-> outcome.readOK]
        dec == UnmarshalResult(outcome.body, target)
        zero == [state |-> "zero"]
    IN  IF outcome.kind = "error"
        THEN [resp |-> NoResponse, err |-> [type |-> "transport", msg |-> outcome.err], v |-> zero]
        ELSE IF ~outcome.readOK
        THEN [resp |-> response, err |-> [type |-> "read", msg |-> "read"], v |-> zero]
        ELSE IF outcome.status < 200 \/ outcome.status >= 300
        THEN [resp |-> response, err |-> checkError(outcome.status, outcome.body), v |-> zero]
        ELSE IF target # Nil /\ outcome.body.kind # "empty" /\ dec.err # Nil
        THEN [resp |-> response, err |-> [type |-> "decode", msg |-> dec.err], v |-> dec.v]
        ELSE [resp |-> response, err |-> ErrNil,
              v |-> IF target # Nil /\ outcome.body.kind # "empty" THEN dec.v ELSE zero]

\* a service method handing back its result variable whatever Do returned
ServiceReturnKeepsResult(op, d) ==
    IF op \in NoResultOps THEN [result |-> [nil |-> TRUE, state |-> "none"], resp |-> d.resp, err |-> d.err]
    ELSE IF op = "BusinessUnits.ListAdmins"
    THEN [result |-> [nil |-> d.v.state = "zero", state |-> d.v.state], resp |-> d.resp, err |-> d.err]
    ELSE [result |-> [nil |-> FALSE, state |-> d.v.state], resp |-> d.resp, err |-> d.err]

\* every service method returning nil for a result nothing was decoded into
ServiceReturnNilWhenZero(op, d) ==
    IF op \in NoResultOps THEN [result |-> [nil |-> TRUE, state |-> "none"], resp |-> d.resp, err |-> d.err]
    ELSE IF IsErr(d.err) THEN [result |-> [nil |-> TRUE, state |-> "none"], resp |-> d.resp, err |-> d.err]
    ELSE [result |-> [nil |-> d.v.state = "zero", state |-> d.v.state], resp |-> d.resp, err |-> ErrNil]

\* the values a service method returns after Do: (result, resp, err)
ServiceReturn(op, d) ==
    IF op \in NoResultOps THEN [result |-> [nil |-> TRUE, state |-> "none"], resp |-> d.resp, err |-> d.err]
    ELSE IF IsErr(d.err) THEN [result |-> [nil |-> TRUE, state |-> "none"], resp |-> d.resp, err |-> d.err]
    ELSE IF op = "BusinessUnits.ListAdmins"
    THEN [result |-> [nil |-> d.v.state = "zero", state |-> d.v.state], resp |-> d.resp, err |-> ErrNil]
    ELSE [result |-> [nil |-> FALSE, state |-> d.v.state], resp |-> d.resp, err |-> ErrNil]

\* the values a service method returns when NewRequest failed
BuildFailure(msg) ==
    [result |-> [nil |-> TRUE, state |-> "none"], resp |-> NoResponse,
     err |-> [type |-> "build", msg |-> msg]]

IsNotFound(err) ==
    IF err.type = "APIError" THEN err.StatusCode = 404
    ELSE IF err.type = "HTTPError" THEN err.StatusCode = 404
    ELSE FALSE

IsUnauthorized(err) ==
    IF err.type = "APIError" THEN err.StatusCode = 401
    ELSE IF err.type = "HTTPError" THEN err.StatusCode = 401
    ELSE FALSE

\* IsForbidden without the HTTPError branch
IsForbiddenAPIErrorOnly(err) ==
    IF err.type = "APIError" THEN err.StatusCode = 403
    ELSE FALSE

IsForbidden(err) ==
    IF err.type = "APIError" THEN err.StatusCode = 403
    ELSE IF err.type = "HTTPError" THEN err.StatusCode = 403
    ELSE FALSE

----------------------------------------------------------------------------
(* Response bodies *)

TextBody ==
    [kind |-> "text", code |-> Absent, message |-> Absent, details |-> Absent,
     request_id |-> Absent, status |-> Absent, payload |-> "good"]

EmptyBody == [TextBody EXCEPT !.kind = "empty"]

ObjectBody == [TextBody EXCEPT !.kind = "object"]

ErrorBody ==
    [ObjectBody EXCEPT !.code = JString("NOT_FOUND"), !.message = JString("no such thing"),
                       !.payload = "mistyped"]

----------------------------------------------------------------------------
(* The program: a caller constructs one Client and goroutines call it *)

Goroutines == 1..NumGoroutines

NoOutcome ==
    [result |-> [nil |-> TRUE, state |-> "none"], resp |-> NoResponse, err |-> ErrNil]

\* c.client.Do(req) has not returned
NoTransport ==
    [kind |-> "none", err |-> Nil, status |-> 0, body |-> EmptyBody, readOK |-> FALSE]

\* a goroutine that is not inside a call
Idle ==
    [pc |-> "idle", op |-> "", method |-> "", urlStr |-> <<>>, id1 |-> <<>>, id2 |-> <<>>,
     body |-> Nil, opts |-> NilOptions, ctx |-> Nil, basePath |-> <<>>, built |-> FALSE,
     req |-> NoRequest, handed |-> 0, outcome |-> NoTransport, out |-> NoOutcome,
     stdout |-> <<>>]

\* the lines a service method writes to standard output between NewRequest and
\* Do: Search has fmt.Println(httpReq.URL.String()), no other method writes
WrittenToStdout(op, req) ==
    IF op = "Certificates.Search" THEN <<URLString(req.URL) \o <<"\n">>>> ELSE <<>>

\* AfterBuild with the method writing a negative Offset back as 0 through
\* the options pointer
AfterBuildClampsOffset(call, basePath, r) ==
    IF r.err # Nil
    THEN [call EXCEPT !.pc = "done", !.basePath = basePath, !.out = BuildFailure(r.err)]
    ELSE IF call.op = "Client.NewRequest"
    THEN [call EXCEPT !.pc = "done", !.basePath = basePath, !.built = TRUE, !.req = r.req]
    ELSE [call EXCEPT !.pc = "built", !.basePath = basePath, !.built = TRUE,
                      !.opts = [@ EXCEPT !.Offset = IF @ < 0 THEN 0 ELSE @],
                      !.req = WithQuery(r.req, call.op, call.opts),
                      !.stdout = WrittenToStdout(call.op, WithQuery(r.req, call.op, call.opts))]

\* the state of a call once NewRequest returned r, with the base path it read
AfterBuild(call, basePath, r) ==
    IF r.err # Nil
    THEN [call EXCEPT !.pc = "done", !.basePath = basePath, !.out = BuildFailure(r.err)]
    ELSE IF call.op = "Client.NewRequest"
    THEN [call EXCEPT !.pc = "done", !.basePath = basePath, !.built = TRUE, !.req = r.req]
    ELSE [call EXCEPT !.pc = "built", !.basePath = basePath, !.built = TRUE,
                      !.req = WithQuery(r.req, call.op, call.opts),
                      !.stdout = WrittenToStdout(call.op, WithQuery(r.req, call.op, call.opts))]

\* the state of a call once NewRequest has run against client c: a service
\* method adds its query and goes on to Do, a failed NewRequest returns, and a
\* direct call of NewRequest returns the request
AfterNewRequest(call, c) ==
    AfterBuild(call, c.BaseURL.Path,
               BuildRequest(c, call.ctx, call.method, call.urlStr,
                            BodyOf(call.op, call.body)))

\* the caller's arguments of a call of op
NewCall(op, method, urlStr, id1, id2, body, opts, ctx) ==
    [Idle EXCEPT !.op = op,
                 !.method = IF op = "Client.NewRequest" THEN method ELSE Verb(op),
                 !.urlStr = IF op = "Client.NewRequest" THEN urlStr ELSE PathOf(op, id1, id2),
                 !.id1 = id1, !.id2 = id2, !.body = body, !.opts = opts, !.ctx = ctx]

\* the state of a goroutine that entered NewRequest
Enter(call) ==
    IF NeedsSlash(client) THEN [call EXCEPT !.pc = "slash"] ELSE AfterNewRequest(call, client)

\* A goroutine enters a service method (or NewRequest itself): the method
\* builds its path and NewRequest tests the suffix of c.BaseURL.Path.  With
\* the suffix present NewRequest runs to its end without writing the client.
Begin(g, limit, op, method, urlStr, id1, id2, body, opts, ctx) ==
    /\ calls[g].pc = "idle"
    /\ started < limit
    /\ started' = started + 1
    /\ calls' = [calls EXCEPT ![g] =
                    Enter(NewCall(op, method, urlStr, id1, id2, body, opts, ctx))]
    /\ UNCHANGED <<ctor, made, client, served, answered>>

\* c.BaseURL.Path += "/" by a goroutine that found the suffix missing, and
\* the rest of NewRequest
Slash(g) ==
    /\ calls[g].pc = "slash"
    /\ client' = AppendSlash(client)
    /\ calls' = [calls EXCEPT ![g] = AfterNewRequest(calls[g], client')]
    /\ UNCHANGED <<ctor, made, served, started, answered>>

\* Do sending the request again after a transport error
DoNextRetry(outcome) == IF outcome.kind = "error" THEN "built" ELSE "done"

\* where Do goes after c.client.Do(req) returned: every path of Do returns
DoNext(outcome) == "done"

\* Do after c.client.Do(req) returned outcome, and the return of the service method
Finish(call, outcome) ==
    [call EXCEPT !.pc = DoNext(outcome), !.outcome = outcome,
                 !.out = ServiceReturn(call.op, Do(outcome, TargetOf(call.op)))]

TransportError(ctx) ==
    [kind |-> "error", err |-> IF ctx = "done" THEN "context" ELSE "network",
     status |-> 0, body |-> EmptyBody, readOK |-> FALSE]

\* c.client.Do(req): the transport takes the request and delivers it to the server
Deliver(g) ==
    /\ calls[g].pc = "built"
    /\ calls[g].ctx = "live"
    /\ served' = served + 1
    /\ calls' = [calls EXCEPT ![g].pc = "wait", ![g].handed = @ + 1]
    /\ UNCHANGED <<ctor, made, client, started, answered>>

\* c.client.Do(req) fails before anything reaches the server: the context is
\* already done, or the connection cannot be made
SendFail(g) ==
    /\ calls[g].pc = "built"
    /\ calls' = [calls EXCEPT ![g] =
                    Finish([calls[g] EXCEPT !.handed = @ + 1], TransportError(calls[g].ctx))]
    /\ UNCHANGED <<ctor, made, client, served, started, answered>>

\* the caller cancels the context of a call in progress, or its deadline expires
CtxDone(g) ==
    /\ calls[g].pc \in {"built", "wait"}
    /\ calls[g].ctx = "live"
    /\ calls' = [calls EXCEPT ![g].ctx = "done"]
    /\ UNCHANGED <<ctor, made, client, served, started, answered>>

\* the server answers and c.client.Do(req) returns the response; Do reads the
\* body (readOK tells whether io.ReadAll succeeds) and returns
Respond(g, status, body, readOK) ==
    /\ calls[g].pc = "wait"
    /\ calls[g].ctx = "live"
    /\ answered' = answered + 1
    /\ calls' = [calls EXCEPT ![g] =
                    Finish(calls[g], [kind |-> "response", err |-> Nil, status |-> status,
                                      body |-> body, readOK |-> readOK])]
    /\ UNCHANGED <<ctor, made, client, served, started>>

\* no response arrives: the context is done, the client's timeout expires or
\* the connection breaks, and c.client.Do(req) returns an error
NoAnswer(g) ==
    /\ calls[g].pc = "wait"
    /\ calls' = [calls EXCEPT ![g] = Finish(calls[g], TransportError(calls[g].ctx))]
    /\ UNCHANGED <<ctor, made, client, served, started, answered>>

\* the caller takes the returned values
Return(g) ==
    /\ calls[g].pc = "done"
    /\ calls' = [calls EXCEPT ![g] = Idle]
    /\ UNCHANGED <<ctor, made, client, served, started, answered>>

\* the caller assigns the exported field UserAgent between two calls
SetUserAgent(ua) ==
    /\ \A g \in Goroutines : calls[g].pc = "idle"
    /\ client.UserAgent # ua
    /\ client' = [client EXCEPT !.UserAgent = ua]
    /\ UNCHANGED <<ctor, made, calls, served, started, answered>>

----------------------------------------------------------------------------
(* Inputs *)

ApiKeys == {"key-1", "key-2"}

OptBaseSlash == [kind |-> "WithBaseURL", arg |-> <<"https", ":", "/", "/", "api.test", "/">>]

OptBasePath == [kind |-> "WithBaseURL", arg |-> <<"https", ":", "/", "/", "api.test", "/", "b">>]

OptUserAgent == [kind |-> "WithUserAgent", arg |-> "custom-agent/2.0"]

OptHTTPClient == [kind |-> "WithHTTPClient", arg |-> "custom-http-client"]

\* the NewClient calls of the sequential caller
Configs ==
    {[apiKey |-> "key-1", opts |-> o] :
        o \in {<<>>, <<OptBaseSlash>>, <<OptBasePath>>, <<OptUserAgent, OptHTTPClient>>}}
    \cup {[apiKey |-> "key-2", opts |-> <<>>]}

\* the NewClient calls of the caller that uses NewRequest directly
ReqConfigs ==
    {[apiKey |-> "key-1", opts |-> o] : o \in {<<>>, <<OptBaseSlash>>, <<OptBasePath>>}}
    \cup {[apiKey |-> "key-2", opts |-> <<>>]}

\* the NewClient calls of the concurrent callers
ConcConfigs == {[apiKey |-> "key-1", opts |-> o] : o \in {<<>>, <<OptBaseSlash>>}}

UserAgents == {UserAgent, "custom-agent/2.0"}

PathAlphabet == {"test", "/", ".", "?", "#", CTL}

\* every string of at most n tokens of alphabet
Strings(alphabet, n) == UNION {[1..k -> alphabet] : k \in 0..n}

Paths == Strings(PathAlphabet, MaxLen)

Methods == {"GET", "POST", "", "BAD METHOD"}

Bodies == {Nil, "req", "nilptr", "unencodable"}

\* the method and body arguments of the direct calls of NewRequest
MethodsAndBodies == (Methods \X {Nil}) \cup ({"POST"} \X Bodies)

\* ID arguments: plain, empty, with the characters a URL reference treats
\* specially, and equal to a literal segment of another route
Ids ==
    {<<"id-1">>, <<>>, <<"a", "/", "b">>, <<".", ".">>, <<"a", "?", "b">>, <<"a", "#", "b">>,
     <<"a", CTL>>, <<"public">>}

IdsFor(op) == IF op \in OneIdOps \cup TwoIdOps THEN Ids ELSE {<<>>}

Ids2For(op) == IF op \in TwoIdOps THEN Ids ELSE {<<>>}

BodiesFor(op) == IF op \in BodyOps THEN {"req", "nilptr", "unencodable"} ELSE {Nil}

PageValues == (0 - 1)..MaxPage

\* the options structs the caller passes to a list or search operation
Options ==
    {NilOptions}
    \cup {[ZeroOptions EXCEPT !.Offset = o, !.Limit = l, !.Status = st] :
            o \in PageValues, l \in PageValues, st \in {"", "active"}}

OptionsFor(op) == IF op \in ListOps THEN Options ELSE {NilOptions}

\* the answers of the server to the sequential caller: status, body, and
\* whether the body can be read to its end
Answers ==
    {<<200, ObjectBody, TRUE>>, <<200, EmptyBody, TRUE>>, <<404, ErrorBody, TRUE>>,
     <<500, TextBody, TRUE>>, <<200, ObjectBody, FALSE>>,
     <<200, [ObjectBody EXCEPT !.payload = "mistyped"], TRUE>>}

\* the NewClient calls of the caller that lists with options
QueryConfigs == {[apiKey |-> "key-1", opts |-> o] : o \in {<<>>, <<OptBaseSlash>>}}

\* the string fields each options struct declares
StringFields(op) ==
    CASE op = "Certificates.Search" ->
            {"CommonName", "SerialNumber", "Status", "ProfileID", "SortBy", "SortOrder"}
      [] op = "BusinessUnits.List" -> {"Name", "ParentID", "SortBy", "SortOrder"}
      [] op = "Profiles.List" ->
            {"Name", "Type", "Status", "EnrollmentMethod", "SortBy", "SortOrder"}
      [] op = "Enrollments.ListDetails" -> {"Status", "ProfileID", "SortBy", "SortOrder"}
      [] op = "CertificateOwners.List" ->
            {"Email", "FirstName", "LastName", "SortBy", "SortOrder"}

\* the value the caller gives a string field when it sets it
FieldValue ==
    [CommonName |-> "example.com", SerialNumber |-> "0A1B", Status |-> "active",
     ProfileID |-> "profile/1", SortBy |-> "name", SortOrder |-> "desc",
     Name |-> "Engineering", ParentID |-> "bu-1", Type |-> "ssl",
     EnrollmentMethod |-> "api", Email |-> "owner@example.com",
     FirstName |-> "Ada", LastName |-> "Lovelace"]

\* the IsActive pointers an options struct can carry
IsActiveValues(op) ==
    IF op \in {"BusinessUnits.List", "CertificateOwners.List"}
    THEN {Nil, "true", "false"} ELSE {Nil}

\* the Tags slices an options struct can carry
TagValues(op) ==
    IF op = "Certificates.Search" THEN {<<>>, <<"prod">>, <<"prod", "web">>} ELSE {<<>>}

\* an options struct with the fields of set given their value
WithFields(set, active, tags) ==
    [f \in DOMAIN ZeroOptions |->
        CASE f \in set -> FieldValue[f]
          [] f = "IsActive" -> active
          [] f = "Tags" -> tags
          [] OTHER -> ZeroOptions[f]]

\* the options structs that set filters and leave the pagination at zero
FilterOptions(op) ==
    {WithFields(set, active, tags) :
        set \in SUBSET StringFields(op), active \in IsActiveValues(op),
        tags \in TagValues(op)}

\* the options structs that set the pagination and no filter
PageOptions ==
    {[ZeroOptions EXCEPT !.Offset = o, !.Limit = l, !.Page = p, !.PageSize = ps] :
        o \in PageValues, l \in PageValues, p \in PageValues, ps \in PageValues}

ListOptionsFor(op) == {NilOptions} \cup FilterOptions(op) \cup PageOptions

\* the keys of the caller that constructs clients: none, and one
NewKeys == {"", "key-1"}

\* the base URLs given to WithBaseURL: with a path, a bare "?", an empty and
\* a non-empty fragment, a relative one, the empty one, and two that
\* url.Parse rejects (no scheme before ":", a control character)
BaseURLs ==
    {OptBaseSlash.arg, OptBasePath.arg,
     <<"https", ":", "/", "/", "api.test", "?">>,
     <<"https", ":", "/", "/", "api.test", "/", "#">>,
     <<"https", ":", "/", "/", "api.test", "/", "#", "top">>,
     <<"test">>, <<>>,
     <<":", "/", "/", "invalid-url">>,
     <<"https", ":", "/", "/", "api.test", CTL>>}

\* the options a caller can pass to NewClient
ClientOptions ==
    {[kind |-> "WithHTTPClient", arg |-> h] : h \in {Nil, OptHTTPClient.arg}}
    \cup {[kind |-> "WithUserAgent", arg |-> ua] : ua \in {"", OptUserAgent.arg}}
    \cup {[kind |-> "WithBaseURL", arg |-> u] : u \in BaseURLs}

\* the option lists of at most MaxOpts options
OptionLists == UNION {[1..n -> ClientOptions] : n \in 0..MaxOpts}

\* the IDs of the callers whose requests are compared: a plain one, one equal
\* to a literal segment of another route, and one with a "/"
RouteIds == {<<"id-1">>, <<"public">>, <<"certificate", "/", "id-1">>}

RouteIdsFor(op) == IF op \in OneIdOps \cup TwoIdOps THEN RouteIds ELSE {<<>>}

RouteIds2For(op) == IF op \in TwoIdOps THEN RouteIds ELSE {<<>>}

\* the two callers whose requests are compared
RouteCallers == {1, 2}

----------------------------------------------------------------------------
(* Specifications *)

InitWith(configs) ==
    /\ ctor \in configs
    /\ NewClient(ctor.apiKey, ctor.opts).err = Nil
    /\ made = NewClient(ctor.apiKey, ctor.opts)
    /\ client = made.c
    /\ calls = [g \in Goroutines |-> Idle]
    /\ served = 0
    /\ started = 0
    /\ answered = 0

Init == InitWith(Configs)

\* one caller making service calls one after the other
CallService ==
    \E op \in ServiceOps :
        \E id1 \in IdsFor(op), id2 \in Ids2For(op), body \in BodiesFor(op),
           opts \in OptionsFor(op) :
            Begin(1, MaxSeqCalls, op, "", <<>>, id1, id2, body, opts, "live")

ServerAnswers == \E r \in Answers : Respond(1, r[1], r[2], r[3])

CallerSetsUserAgent == \E ua \in UserAgents : SetUserAgent(ua)

Next ==
    \/ CallService
    \/ Slash(1)
    \/ Deliver(1)
    \/ SendFail(1)
    \/ ServerAnswers
    \/ NoAnswer(1)
    \/ Return(1)

Spec == Init /\ [][Next]_vars

\* one caller calling NewRequest directly
CallNewRequest ==
    \E mb \in MethodsAndBodies, urlStr \in Paths :
        Begin(1, MaxSeqCalls, "Client.NewRequest", mb[1], urlStr, <<>>, <<>>, mb[2],
              NilOptions, "live")

NextReq ==
    \/ CallNewRequest
    \/ Slash(1)
    \/ Return(1)
    \/ CallerSetsUserAgent

InitReq == InitWith(ReqConfigs)

SpecReq == InitReq /\ [][NextReq]_vars

\* goroutines calling the shared client at the same time
ConcOps == {"Certificates.Search", "Certificates.Revoke"}

ConcCall(g) ==
    \E op \in ConcOps, ctx \in {"live", "done"} :
        \E body \in BodiesFor(op) \ {"nilptr"} :
            Begin(g, MaxCalls, op, "", <<>>, <<"id-1">>, <<>>, body, NilOptions, ctx)

ConcAnswer(g) ==
    \E r \in {<<200, ObjectBody>>, <<500, TextBody>>} : Respond(g, r[1], r[2], TRUE)

NextConc ==
    \E g \in Goroutines :
        \/ ConcCall(g)
        \/ Slash(g)
        \/ Deliver(g)
        \/ SendFail(g)
        \/ CtxDone(g)
        \/ ConcAnswer(g)
        \/ NoAnswer(g)
        \/ Return(g)

InitConc == InitWith(ConcConfigs)

SpecConc == InitConc /\ [][NextConc]_vars

\* one caller, every status and every shape of response body
DoOps == {"Certificates.Get", "BusinessUnits.Delete", "BusinessUnits.ListAdmins"}

DoStatuses == {100, 200, 204, 301, 400, 401, 403, 404, 500}

DoBodies ==
    {TextBody, EmptyBody, [TextBody EXCEPT !.kind = "null"], [TextBody EXCEPT !.kind = "scalar"]}
    \cup {[TextBody EXCEPT !.kind = "array", !.payload = p] : p \in {"good", "mistyped"}}
    \cup {[kind |-> "object", code |-> c, message |-> m, details |-> d, request_id |-> r,
           status |-> st, payload |-> p] :
            c \in {Absent, JString("E1"), JNumber(42)},
            m \in {Absent, JString("m")},
            d \in {Absent, JStrings(<<"d1", "d2">>), JString("oops")},
            r \in {Absent, JNumber(7)},
            st \in {Absent, JNumber(200)},
            p \in {"good", "mistyped"}}

DoCall ==
    \E op \in DoOps :
        Begin(1, MaxSeqCalls, op, "", <<>>, <<"id-1">>, <<>>, Nil, NilOptions, "live")

DoAnswer ==
    \E status \in DoStatuses, body \in DoBodies, readOK \in BOOLEAN :
        Respond(1, status, body, readOK)

NextDo ==
    \/ DoCall
    \/ Slash(1)
    \/ Deliver(1)
    \/ SendFail(1)
    \/ DoAnswer
    \/ NoAnswer(1)
    \/ Return(1)

SpecDo == InitConc /\ [][NextDo]_vars

\* one caller listing and searching with options
CallList ==
    \E op \in ListOps :
        \E opts \in ListOptionsFor(op) :
            Begin(1, MaxSeqCalls, op, "", <<>>, <<>>, <<>>, Nil, opts, "live")

ListAnswer == Respond(1, 200, ObjectBody, TRUE)

NextQuery ==
    \/ CallList
    \/ Slash(1)
    \/ Deliver(1)
    \/ ListAnswer
    \/ Return(1)

InitQuery == InitWith(QueryConfigs)

SpecQuery == InitQuery /\ [][NextQuery]_vars

\* one of two callers calls any operation
RouteCall(g) ==
    \E op \in ServiceOps :
        \E id1 \in RouteIdsFor(op), id2 \in RouteIds2For(op) :
            Begin(g, MaxCalls, op, "", <<>>, id1, id2,
                  IF op \in BodyOps THEN "req" ELSE Nil, NilOptions, "live")

RouteAnswer(g) == Respond(g, 200, ObjectBody, TRUE)

NextRoutes ==
    \E g \in RouteCallers :
        \/ RouteCall(g)
        \/ Deliver(g)
        \/ RouteAnswer(g)

InitRoutes == InitWith({[apiKey |-> "key-1", opts |-> <<OptBaseSlash>>]})

\* two callers, each calling one operation on the same client
SpecRoutes == InitRoutes /\ [][NextRoutes]_vars

\* what the caller holds before it has called NewClient
NotCalled == [c |-> NilClient, err |-> Nil, ran |-> <<>>, called |-> FALSE]

\* the caller is about to call NewClient with some key and some options
InitNew ==
    /\ ctor \in [apiKey : NewKeys, opts : OptionLists]
    /\ made = NotCalled
    /\ client = NilClient
    /\ calls = [g \in Goroutines |-> Idle]
    /\ served = 0
    /\ started = 0
    /\ answered = 0

\* the caller calls NewClient and keeps the client and the error it returns
CallNewClient ==
    /\ made = NotCalled
    /\ made' = NewClient(ctor.apiKey, ctor.opts)
    /\ client' = made'.c
    /\ UNCHANGED <<ctor, calls, served, started, answered>>

NextNew == CallNewClient

\* NewClient called with every key and every option list
SpecNew == InitNew /\ [][NextNew]_vars

----------------------------------------------------------------------------
(* Claims *)

\* the calls that have returned from a service method
Returned(g) == calls[g].pc = "done" /\ calls[g].op \in ServiceOps

\* the calls that returned after the transport delivered a response
GotResponse(g) == Returned(g) /\ calls[g].outcome.kind = "response"

\* a body that is a JSON text
ParseableJSON(body) == body.kind \in {"null", "array", "scalar", "object"}

\* the string member of a body, empty when the member is missing
Member(m) == IF m.t = "string" \/ m.t = "strings" THEN m.v ELSE <<>>

\* a body encoding/json decodes into the APIError struct: null, or an object
\* whose members have the types of the struct's fields
DecodesAsAPIError(body) ==
    \/ body.kind = "null"
    \/ /\ body.kind = "object"
       /\ body.code.t \in {"absent", "string"}
       /\ body.message.t \in {"absent", "string"}
       /\ body.details.t \in {"absent", "strings"}
       /\ body.request_id.t \in {"absent", "string"}

CarriesBody(err, body) ==
    /\ err.type = "APIError"
    /\ err.Code = Member(body.code)
    /\ err.Message = Member(body.message)
    /\ err.Details = Member(body.details)

\* C1 as stated: for a 4xx/5xx response the error is an APIError with the
\* body's code, message and details whenever the body is parseable JSON, and
\* an HTTPError with the status and the raw body whenever it is not
C1_ParseableJSONGivesAPIError ==
    \A g \in Goroutines :
        GotResponse(g) /\ calls[g].outcome.status \in 400..599 =>
            LET o == calls[g].outcome
                e == calls[g].out.err
            IN  IF ParseableJSON(o.body) THEN CarriesBody(e, o.body)
                ELSE e.type = "HTTPError" /\ e.StatusCode = o.status /\ e.Message = o.body

\* C1 amended: for a 4xx/5xx response whose body was read completely the error
\* is an APIError with the body's code, message and details whenever the body
\* decodes into the APIError struct, and an HTTPError with the status and the
\* raw body otherwise; when the body cannot be read the read error is returned
C1_ErrorClassification ==
    \A g \in Goroutines :
        GotResponse(g) /\ calls[g].outcome.status \in 400..599 =>
            LET o == calls[g].outcome
                e == calls[g].out.err
            IN  IF ~o.readOK THEN e.type = "read"
                ELSE IF DecodesAsAPIError(o.body) THEN CarriesBody(e, o.body)
                ELSE e.type = "HTTPError" /\ e.StatusCode = o.status /\ e.Message = o.body

\* a 404 whose body is a JSON array came back as an HTTPError with that body
C1_Witness ==
    \E g \in Goroutines :
        /\ GotResponse(g)
        /\ calls[g].outcome.status = 404
        /\ calls[g].outcome.readOK
        /\ calls[g].outcome.body.kind = "array"
        /\ calls[g].out.err.type = "HTTPError"

\* C7: the StatusCode of the APIError or HTTPError that Do returns is the
\* status of the response; no member of the body changes it
C7_StatusPropagation ==
    \A g \in Goroutines :
        Returned(g) /\ calls[g].out.err.type \in {"APIError", "HTTPError"} =>
            /\ calls[g].outcome.kind = "response"
            /\ calls[g].out.err.StatusCode = calls[g].outcome.status

\* an APIError for a 404 whose body carries a status member of its own
C7_Witness ==
    \E g \in Goroutines :
        /\ GotResponse(g)
        /\ calls[g].outcome.status = 404
        /\ calls[g].outcome.body.status.t = "number"
        /\ calls[g].out.err.type = "APIError"
        /\ calls[g].out.err.StatusCode = 404

IsStatusError(err, code) == err.type \in {"APIError", "HTTPError"} /\ err.StatusCode = code

BoolCount(b) == IF b THEN 1 ELSE 0

\* C8: IsNotFound, IsUnauthorized and IsForbidden are true exactly for an
\* APIError or HTTPError with status 404, 401 and 403, false for every other
\* error (nil, transport, read and decode errors, other statuses), and at
\* most one of the three is true
C8_ErrorPredicates ==
    \A g \in Goroutines :
        Returned(g) =>
            LET e == calls[g].out.err
            IN  /\ IsNotFound(e) <=> IsStatusError(e, 404)
                /\ IsUnauthorized(e) <=> IsStatusError(e, 401)
                /\ IsForbidden(e) <=> IsStatusError(e, 403)
                /\ BoolCount(IsNotFound(e)) + BoolCount(IsUnauthorized(e))
                     + BoolCount(IsForbidden(e)) <= 1

\* an HTTPError with status 403: IsForbidden alone is true
C8_Witness ==
    \E g \in Goroutines :
        /\ Returned(g)
        /\ calls[g].out.err.type = "HTTPError"
        /\ calls[g].out.err.StatusCode = 403
        /\ IsForbidden(calls[g].out.err)
        /\ ~IsNotFound(calls[g].out.err)

\* C2: a call hands its request to the HTTP client at most once, exactly once
\* when NewRequest succeeded and never when it failed, whatever the outcome;
\* the server never sees more requests than calls were made and every
\* answered call is one request of its own, so N answered calls are N requests
C2_OneRequestPerCall ==
    /\ \A g \in Goroutines :
        /\ calls[g].handed <= 1
        /\ calls[g].pc \in {"idle", "slash", "built"} => calls[g].handed = 0
        /\ calls[g].pc = "wait" => calls[g].handed = 1
        /\ Returned(g) => calls[g].handed = BoolCount(calls[g].built)
    /\ answered <= served
    /\ served <= started

\* two calls are in flight on the one client at the same time and the server
\* has received two requests
C2_Witness ==
    /\ calls[1].pc = "wait"
    /\ calls[2].pc = "wait"
    /\ served = 2
    /\ started = 2

\* C3 as stated: once NewClient has returned no client operation writes a
\* field of the shared Client
C3_NoWriteToClient == [][client' = client]_vars

\* C9: a service call whose context was done when it was made, or became done
\* before the server answered, returns a context error and a nil result
C9_Cancellation ==
    \A g \in Goroutines :
        Returned(g) /\ calls[g].ctx = "done" =>
            /\ IsErr(calls[g].out.err)
            /\ calls[g].out.result.nil
            /\ calls[g].built =>
                    calls[g].out.err.type = "transport" /\ calls[g].out.err.msg = "context"

\* a search that reached the server and whose context expired before the answer
C9_Witness ==
    \E g \in Goroutines :
        /\ Returned(g)
        /\ calls[g].op = "Certificates.Search"
        /\ calls[g].ctx = "done"
        /\ served = 1
        /\ started = 1
        /\ IsErr(calls[g].out.err)

\* the calls for which NewRequest built a request
Built(g) == calls[g].pc \in {"built", "wait", "done"} /\ calls[g].built

\* C4: every request NewRequest builds carries X-API-Key equal to the key
\* given to NewClient, Accept: application/json and User-Agent equal to the
\* client's current UserAgent
C4_AuthenticationHeaders ==
    \A g \in Goroutines :
        Built(g) =>
            /\ calls[g].req.Header.XAPIKey = ctor.apiKey
            /\ calls[g].req.Header.Accept = "application/json"
            /\ calls[g].req.Header.UserAgent = client.UserAgent

\* a request built for the second key after the caller changed UserAgent
C4_Witness ==
    \E g \in Goroutines :
        /\ Built(g)
        /\ ctor = [apiKey |-> "key-2", opts |-> <<>>]
        /\ client.UserAgent = "custom-agent/2.0"
        /\ calls[g].req.Header.XAPIKey = "key-2"
        /\ calls[g].req.Header.UserAgent = "custom-agent/2.0"

\* the direct calls of NewRequest that returned a request
BuiltByNewRequest(g) == Built(g) /\ calls[g].op = "Client.NewRequest"

\* scheme://host of the client's base URL
BaseOrigin == client.BaseURL.Scheme \o <<":", "/", "/">> \o client.BaseURL.Host

\* the base URL with its "/"-terminated path, "mpki/api/v1/" and p without
\* one leading "/"
ExpectedURL(basePath, p) ==
    BaseOrigin \o basePath \o <<"mpki", "/", "api", "/", "v1", "/">> \o TrimPrefix(p, "/")

\* the URL NewRequest gives for p on the client as it is now
URLFor(g, p) ==
    URLString(BuildRequest(client, calls[g].ctx, calls[g].method, p, calls[g].body).req.URL)

\* C5 as stated: the request has the given method, its URL is the base URL
\* followed by mpki/api/v1/ and p without one leading "/", and p and "/"+p
\* give the same URL
C5_URLIsConcatenation ==
    \A g \in Goroutines :
        BuiltByNewRequest(g) =>
            /\ calls[g].req.Method = calls[g].method
            /\ URLString(calls[g].req.URL) = ExpectedURL(calls[g].basePath, calls[g].urlStr)
            /\ HasPrefix(calls[g].urlStr, "/") =>
                    URLString(calls[g].req.URL) = URLFor(g, Tail(calls[g].urlStr))

\* a reference whose path has no "." or ".." segment and that has no fragment
NoDotSegmentNoFragment(p) ==
    /\ ~Contains(p, "#")
    /\ \A i \in 1..Len(Split(CutBefore(p, "?"), "/")) :
            Split(CutBefore(p, "?"), "/")[i] \notin {<<".">>, <<".", ".">>}

\* C5 amended: the method is the given one (GET for the empty method); for p
\* without "." and ".." path segments and without "#" the URL is the base URL
\* followed by mpki/api/v1/ and p without one leading "/"; p and "/"+p give
\* the same URL when p does not itself begin with "/"; with the default base
\* URL and p = "test" the URL is https://one.digicert.com/mpki/api/v1/test
C5_URLConstruction ==
    \A g \in Goroutines :
        BuiltByNewRequest(g) =>
            LET p == calls[g].urlStr
            IN  /\ calls[g].req.Method = IF calls[g].method = "" THEN "GET" ELSE calls[g].method
                /\ NoDotSegmentNoFragment(TrimPrefix(p, "/")) =>
                        URLString(calls[g].req.URL) = ExpectedURL(calls[g].basePath, p)
                /\ HasPrefix(p, "/") /\ ~HasPrefix(Tail(p), "/") =>
                        URLString(calls[g].req.URL) = URLFor(g, Tail(p))
                /\ ctor.opts = <<>> /\ p = <<"test">> =>
                        URLString(calls[g].req.URL) =
                            <<"https", ":", "/", "/", "one.digicert.com", "/", "mpki", "/",
                              "api", "/", "v1", "/", "test">>

\* NewRequest on the default client with p = "/test"
C5_Witness ==
    \E g \in Goroutines :
        /\ BuiltByNewRequest(g)
        /\ ctor.opts = <<>>
        /\ calls[g].urlStr = <<"/", "test">>
        /\ URLString(calls[g].req.URL) =
                <<"https", ":", "/", "/", "one.digicert.com", "/", "mpki", "/", "api", "/",
                  "v1", "/", "test">>

\* the verb and path template the routing table gives each operation
RoutingTable(id1, id2) ==
    [op \in {"Certificates.Issue", "Certificates.Get", "Certificates.GetCertificate",
             "Certificates.Search", "Certificates.Revoke", "Certificates.Unrevoke",
             "Certificates.Renew", "Certificates.Pickup", "BusinessUnits.Create",
             "BusinessUnits.List", "BusinessUnits.Get", "BusinessUnits.Update",
             "BusinessUnits.Delete", "BusinessUnits.AddAdmin", "BusinessUnits.ListAdmins",
             "BusinessUnits.RemoveAdmin", "Profiles.List", "Profiles.Get",
             "Profiles.ListPublic", "Profiles.ListTemplates", "Enrollments.Create",
             "Enrollments.Get", "Enrollments.ListDetails"} |->
        CASE op = "Certificates.Issue" -> <<"POST", <<"certificate">>>>
          [] op = "Certificates.Get" -> <<"GET", <<"certificate", "/">> \o id1>>
          [] op = "Certificates.GetCertificate" -> <<"GET", <<"certificate-by-id", "/">> \o id1>>
          [] op = "Certificates.Search" -> <<"GET", <<"certificate-search">>>>
          [] op = "Certificates.Revoke" ->
                <<"PUT", <<"certificate", "/">> \o id1 \o <<"/", "revoke">>>>
          [] op = "Certificates.Unrevoke" ->
                <<"DELETE", <<"certificate", "/">> \o id1 \o <<"/", "revoke">>>>
          [] op = "Certificates.Renew" ->
                <<"POST", <<"certificate", "/">> \o id1 \o <<"/", "renew">>>>
          [] op = "Certificates.Pickup" -> <<"POST", <<"certificate-pickup", "/">> \o id1>>
          [] op = "BusinessUnits.Create" -> <<"POST", <<"business-unit">>>>
          [] op = "BusinessUnits.List" -> <<"GET", <<"business-unit">>>>
          [] op = "BusinessUnits.Get" -> <<"GET", <<"business-unit", "/">> \o id1>>
          [] op = "BusinessUnits.Update" -> <<"PUT", <<"business-unit", "/">> \o id1>>
          [] op = "BusinessUnits.Delete" -> <<"DELETE", <<"business-unit", "/">> \o id1>>
          [] op = "BusinessUnits.AddAdmin" ->
                <<"POST", <<"business-unit", "/">> \o id1 \o <<"/", "admin">>>>
          [] op = "BusinessUnits.ListAdmins" ->
                <<"GET", <<"business-unit", "/">> \o id1 \o <<"/", "admin">>>>
          [] op = "BusinessUnits.RemoveAdmin" ->
                <<"DELETE", <<"business-unit", "/">> \o id1 \o <<"/", "admin", "/">> \o id2>>
          [] op = "Profiles.List" -> <<"GET", <<"profiles">>>>
          [] op = "Profiles.Get" -> <<"GET", <<"profiles", "/">> \o id1>>
          [] op = "Profiles.ListPublic" -> <<"GET", <<"profiles", "/", "public">>>>
          [] op = "Profiles.ListTemplates" -> <<"GET", <<"profiles", "/", "templates">>>>
          [] op = "Enrollments.Create" -> <<"POST", <<"enrollment">>>>
          [] op = "Enrollments.Get" -> <<"GET", <<"enrollment", "/">> \o id1>>
          [] op = "Enrollments.ListDetails" -> <<"GET", <<"enrollment-details">>>>]

\* an ID that is an ordinary path piece: no "?", no "#", no "." or ".." segment
PlainID(id) == NoDotSegmentNoFragment(id) /\ ~Contains(id, "?")

\* C6: every operation of the routing table issues its verb, hands NewRequest
\* its path template filled with the IDs, and (for IDs that are ordinary path
\* pieces) the request path is the base path, mpki/api/v1/ and the filled
\* template, whatever the options, the body and the calls made before
C6_RoutingTable ==
    \A g \in Goroutines :
        Built(g) /\ calls[g].op \in DOMAIN RoutingTable(<<>>, <<>>) =>
            LET route == RoutingTable(calls[g].id1, calls[g].id2)[calls[g].op]
            IN  /\ calls[g].req.Method = route[1]
                /\ calls[g].urlStr = route[2]
                /\ PlainID(calls[g].id1) /\ PlainID(calls[g].id2) =>
                        calls[g].req.URL.Path =
                            calls[g].basePath \o <<"mpki", "/", "api", "/", "v1", "/">>
                                \o route[2]

\* a revocation with a body, made as the second call on a client whose base
\* URL has a path
C6_Witness ==
    \E g \in Goroutines :
        /\ Built(g)
        /\ started = 2
        /\ calls[g].op = "Certificates.Revoke"
        /\ calls[g].body = "req"
        /\ calls[g].req.Method = "PUT"
        /\ calls[g].req.URL.Path =
                <<"/", "b", "/", "mpki", "/", "api", "/", "v1", "/", "certificate", "/",
                  "id-1", "/", "revoke">>

\* C10: the query of Certificates.Search contains offset and limit, with the
\* values of the options, when both Offset > 0 and Limit > 0, and contains
\* neither of them otherwise
C10_SearchPagination ==
    \A g \in Goroutines :
        Built(g) /\ calls[g].op = "Certificates.Search" /\ ~calls[g].opts.isNil =>
            LET raw == calls[g].req.URL.RawQuery
                o == calls[g].opts.Offset
                l == calls[g].opts.Limit
            IN  IF o > 0 /\ l > 0
                THEN /\ QueryAll(raw, "offset") = <<FormatInt(o)>>
                     /\ QueryAll(raw, "limit") = <<FormatInt(l)>>
                ELSE ~QueryHas(raw, "offset") /\ ~QueryHas(raw, "limit")

\* the list operations whose options carry pagination besides Certificates.Search
PagedOps ==
    {"BusinessUnits.List", "Profiles.List", "CertificateOwners.List",
     "Enrollments.ListDetails"}

\* the options struct of call g is not nil
HasOptions(g) == Built(g) /\ calls[g].op \in ListOps /\ ~calls[g].opts.isNil

\* the raw query of the request call g built
RawQuery(g) == calls[g].req.URL.RawQuery

\* C11: for BusinessUnits.List, Profiles.List, CertificateOwners.List and
\* Enrollments.ListDetails, options with a positive Offset and a positive
\* Limit give a request whose query carries offset=<Offset> and limit=<Limit>
C11_UniformPagination ==
    \A g \in Goroutines :
        /\ HasOptions(g)
        /\ calls[g].op \in PagedOps
        /\ calls[g].opts.Offset > 0
        /\ calls[g].opts.Limit > 0
        => /\ QueryAll(RawQuery(g), "offset") = <<FormatInt(calls[g].opts.Offset)>>
           /\ QueryAll(RawQuery(g), "limit") = <<FormatInt(calls[g].opts.Limit)>>

\* C12: for BusinessUnits.List, Profiles.List, CertificateOwners.List and
\* Enrollments.ListDetails, options whose Offset and Limit are 0 give a query
\* with neither offset nor limit, and options whose pagination values are all
\* 0 give a query with no pagination parameter at all
C12_ZeroPaginationOmitted ==
    \A g \in Goroutines :
        HasOptions(g) /\ calls[g].op \in PagedOps =>
            /\ calls[g].opts.Offset = 0 /\ calls[g].opts.Limit = 0 =>
                  /\ ~QueryHas(RawQuery(g), "offset")
                  /\ ~QueryHas(RawQuery(g), "limit")
            /\ /\ calls[g].opts.Offset = 0
               /\ calls[g].opts.Limit = 0
               /\ calls[g].opts.Page = 0
               /\ calls[g].opts.PageSize = 0
               => /\ ~QueryHas(RawQuery(g), "page")
                  /\ ~QueryHas(RawQuery(g), "page_size")

\* BusinessUnits.List built a request from options with a zero pagination and
\* a name filter: the query carries the filter alone
C12_Witness ==
    \E g \in Goroutines :
        /\ HasOptions(g)
        /\ calls[g].op = "BusinessUnits.List"
        /\ calls[g].opts.Offset = 0
        /\ calls[g].opts.Limit = 0
        /\ calls[g].opts.Name # ""
        /\ RawQuery(g) = <<"name", "=", calls[g].opts.Name>>

\* the query key each string field of the options structs declares (url tag)
DeclaredKey ==
    [CommonName |-> "common_name", SerialNumber |-> "serial_number",
     Status |-> "status", ProfileID |-> "profile_id", SortBy |-> "sort_by",
     SortOrder |-> "sort_order", Name |-> "name", ParentID |-> "parent_id",
     Type |-> "type", EnrollmentMethod |-> "enrollment_method", Email |-> "email",
     FirstName |-> "first_name", LastName |-> "last_name"]

\* C13: for every list or search operation, every non-empty string field the
\* options struct declares is in the query under its declared name with its
\* exact value, and Tags gives one "tags" value per element, in order
C13_NoFieldDropped ==
    \A g \in Goroutines :
        HasOptions(g) =>
            /\ \A f \in StringFields(calls[g].op) :
                  calls[g].opts[f] # "" =>
                      QueryAll(RawQuery(g), DeclaredKey[f]) = <<Str(calls[g].opts[f])>>
            /\ QueryAll(RawQuery(g), "tags") =
                  [i \in 1..Len(calls[g].opts.Tags) |-> Str(calls[g].opts.Tags[i])]

\* C14: an options field holding the empty string leaves its key out of the
\* query, and a nil options pointer gives a request with an empty query string
C14_EmptyFiltersOmitted ==
    \A g \in Goroutines :
        Built(g) /\ calls[g].op \in ListOps =>
            IF calls[g].opts.isNil THEN RawQuery(g) = <<>>
            ELSE \A f \in StringFields(calls[g].op) :
                    calls[g].opts[f] = "" => ~QueryHas(RawQuery(g), DeclaredKey[f])

\* Profiles.List built a request from options with a name and no type: the
\* query carries name and no other key
C14_Witness ==
    \E g \in Goroutines :
        /\ HasOptions(g)
        /\ calls[g].op = "Profiles.List"
        /\ calls[g].opts.Name # ""
        /\ calls[g].opts.Type = ""
        /\ RawQuery(g) = <<"name", "=", calls[g].opts.Name>>

\* the operations whose options carry the IsActive pointer
ActiveOps == {"BusinessUnits.List", "CertificateOwners.List"}

\* C15: for BusinessUnits.List and CertificateOwners.List the query carries
\* is_active exactly when the IsActive pointer is not nil, once, with the
\* value "true" or "false" of the boolean it points to
C15_TriStateIsActive ==
    \A g \in Goroutines :
        HasOptions(g) /\ calls[g].op \in ActiveOps =>
            QueryAll(RawQuery(g), "is_active") =
                CASE calls[g].opts.IsActive = Nil -> <<>>
                  [] calls[g].opts.IsActive = "true" -> <<<<"true">>>>
                  [] calls[g].opts.IsActive = "false" -> <<<<"false">>>>

\* CertificateOwners.List built a request from options whose IsActive points
\* to false: the query carries is_active=false
C15_Witness ==
    \E g \in Goroutines :
        /\ HasOptions(g)
        /\ calls[g].op = "CertificateOwners.List"
        /\ calls[g].opts.IsActive = "false"
        /\ QueryAll(RawQuery(g), "is_active") = <<<<"false">>>>

\* call g returned from a method with a result, after a 2xx response whose
\* body was read to its end
SuccessWithResult(g) ==
    /\ GotResponse(g)
    /\ calls[g].op \notin NoResultOps
    /\ calls[g].outcome.status \in 200..299
    /\ calls[g].outcome.readOK

\* C16 as stated: after a 2xx response with an empty body every method with a
\* result returns a nil error, a non-nil response and a non-nil zero result
C16_EmptyBodyGivesNonNilResult ==
    \A g \in Goroutines :
        SuccessWithResult(g) /\ calls[g].outcome.body.kind = "empty" =>
            /\ ~IsErr(calls[g].out.err)
            /\ calls[g].out.resp.present
            /\ ~calls[g].out.result.nil
            /\ calls[g].out.result.state = "zero"

\* C16: after a 2xx response with an empty body a method with a result returns
\* a nil error and a non-nil response; a method whose result is a pointer
\* returns a non-nil pointer to a zero value, and BusinessUnits.ListAdmins,
\* whose result is a slice, returns a nil slice
C16_EmptySuccessBody ==
    \A g \in Goroutines :
        SuccessWithResult(g) /\ calls[g].outcome.body.kind = "empty" =>
            /\ ~IsErr(calls[g].out.err)
            /\ calls[g].out.resp.present
            /\ calls[g].out.result.state = "zero"
            /\ calls[g].out.result.nil <=> calls[g].op = "BusinessUnits.ListAdmins"

\* Certificates.Search returned a non-nil zero result for a 200 with no body
C16_Witness ==
    \E g \in Goroutines :
        /\ SuccessWithResult(g)
        /\ calls[g].op = "Certificates.Search"
        /\ calls[g].outcome.status = 200
        /\ calls[g].outcome.body.kind = "empty"
        /\ ~IsErr(calls[g].out.err)
        /\ ~calls[g].out.result.nil
        /\ calls[g].out.result.state = "zero"

\* the body is JSON that encoding/json decodes into a value of the kind the
\* method expects without an error (null leaves the value untouched)
FitsResult(body, target) ==
    \/ body.kind = "null"
    \/ body.kind = target /\ body.payload = "good"

\* C17: after a 2xx response with a non-empty body that is not valid JSON for
\* the expected result, the method returns the error that wraps the decode
\* failure ("failed to decode response") and a nil result
C17_MalformedSuccessBody ==
    \A g \in Goroutines :
        /\ SuccessWithResult(g)
        /\ calls[g].outcome.body.kind # "empty"
        /\ ~FitsResult(calls[g].outcome.body, TargetOf(calls[g].op))
        => /\ calls[g].out.err.type = "decode"
           /\ calls[g].out.result.nil

\* Certificates.Get returned a decode error and no result for a 200 whose
\* body is an object with a member of the wrong type
C17_Witness ==
    \E g \in Goroutines :
        /\ SuccessWithResult(g)
        /\ calls[g].op = "Certificates.Get"
        /\ calls[g].outcome.body.kind = "object"
        /\ calls[g].outcome.body.payload = "mistyped"
        /\ calls[g].out.err.type = "decode"
        /\ calls[g].out.result.nil

\* C18: NewClient with the empty key returns a nil client and a non-nil
\* error whatever the options, and invokes none of them; NewClient with a
\* non-empty key and no options returns a non-nil client and a nil error
C18_APIKeyRequired ==
    /\ made # NotCalled /\ ctor.apiKey = "" =>
          /\ made.c = NilClient
          /\ made.err # Nil
          /\ made.ran = <<>>
    /\ made # NotCalled /\ ctor.apiKey # "" /\ ctor.opts = <<>> =>
          /\ made.c # NilClient
          /\ made.err = Nil

\* NewClient was called with the empty key and two options, the first of
\* which would have failed, and returned the key's error
C18_Witness ==
    /\ ctor.apiKey = ""
    /\ Len(ctor.opts) = 2
    /\ ctor.opts[1] = [kind |-> "WithHTTPClient", arg |-> Nil]
    /\ made.err = "API key is required"
    /\ made.c = NilClient

\* the option fails: WithHTTPClient(nil), or WithBaseURL of a string that
\* url.Parse rejects
Fails(opt) ==
    \/ opt.kind = "WithHTTPClient" /\ opt.arg = Nil
    \/ opt.kind = "WithBaseURL" /\ Parse(opt.arg).err # Nil

\* the text the error of a failing option contains
FailureText(opt) ==
    IF opt.kind = "WithHTTPClient" THEN "HTTP client cannot be nil" ELSE "invalid base URL"

\* the position of the first failing option of opts, 0 when none fails
FirstFailing(opts) ==
    IF \E i \in 1..Len(opts) : Fails(opts[i])
    THEN CHOOSE i \in 1..Len(opts) : Fails(opts[i]) /\ \A j \in 1..(i - 1) : ~Fails(opts[j])
    ELSE 0

\* C19: with a key, NewClient invokes the options in argument order up to and
\* including the first failing one and no option after it; it then returns a
\* nil client and that option's error ("HTTP client cannot be nil" for
\* WithHTTPClient(nil), "invalid base URL" for WithBaseURL of an unparsable
\* string); when no option fails it invokes them all and returns no error
C19_FailingOptionAborts ==
    made # NotCalled /\ ctor.apiKey # "" =>
        IF FirstFailing(ctor.opts) = 0
        THEN /\ made.err = Nil
             /\ made.c # NilClient
             /\ made.ran = ctor.opts
        ELSE /\ made.c = NilClient
             /\ made.err = FailureText(ctor.opts[FirstFailing(ctor.opts)])
             /\ made.ran = SubSeq(ctor.opts, 1, FirstFailing(ctor.opts))

\* NewClient was given WithBaseURL("://invalid-url") followed by
\* WithHTTPClient(nil): it returned the first option's error and did not
\* invoke the second
C19_Witness ==
    /\ made # NotCalled
    /\ ctor.apiKey # ""
    /\ ctor.opts = <<[kind |-> "WithBaseURL", arg |-> <<":", "/", "/", "invalid-url">>],
                     [kind |-> "WithHTTPClient", arg |-> Nil]>>
    /\ made.c = NilClient
    /\ made.err = "invalid base URL"
    /\ made.ran = <<ctor.opts[1]>>

\* the argument of the last option of the kind in opts, or the default
Given(opts, kind, default) ==
    LET IsKind(opt) == opt.kind = kind
        Last(s) == IF s = <<>> THEN default ELSE s[Len(s)].arg
    IN  Last(SelectSeq(opts, IsKind))

\* NewClient returned a client
Constructed == made # NotCalled /\ made.err = Nil

\* C20 as stated: after a successful construction the HTTP client is the one
\* given, BaseURL.String() equals the URL string given and UserAgent equals
\* the string given, and a setting no option names keeps its default
C20_OptionsEqualWhatWasGiven ==
    Constructed =>
        /\ client.client = Given(ctor.opts, "WithHTTPClient", DefaultHTTPClient)
        /\ URLString(client.BaseURL) = Given(ctor.opts, "WithBaseURL", DefaultBaseURL)
        /\ client.UserAgent = Given(ctor.opts, "WithUserAgent", UserAgent)

\* C20: after a successful construction the HTTP client is the one given,
\* BaseURL is what url.Parse returns for the string given, and UserAgent
\* equals the string given, the empty string included; a setting no option
\* names keeps its default; BaseURL.String() equals the string given unless
\* that string ends in "#", an empty fragment that String() does not write
C20_OptionsTakeEffect ==
    Constructed =>
        /\ client.client = Given(ctor.opts, "WithHTTPClient", DefaultHTTPClient)
        /\ client.BaseURL = Parse(Given(ctor.opts, "WithBaseURL", DefaultBaseURL)).url
        /\ ~HasSuffix(Given(ctor.opts, "WithBaseURL", DefaultBaseURL), "#") =>
              URLString(client.BaseURL) = Given(ctor.opts, "WithBaseURL", DefaultBaseURL)
        /\ client.UserAgent = Given(ctor.opts, "WithUserAgent", UserAgent)

\* NewClient was given WithUserAgent("") and a base URL: the client's
\* UserAgent is empty and its BaseURL writes the string given
C20_Witness ==
    /\ Constructed
    /\ ctor.opts = <<[kind |-> "WithUserAgent", arg |-> ""], OptBasePath>>
    /\ client.UserAgent = ""
    /\ URLString(client.BaseURL) = OptBasePath.arg
    /\ client.client = DefaultHTTPClient

\* the body argument NewRequest received in call g
BodyArg(g) == BodyOf(calls[g].op, calls[g].body)

\* the request of call g has no body and no Content-Type header
Bodiless(g) == calls[g].req.Body = NoBuffer /\ calls[g].req.Header.ContentType = Nil

\* C21: a request built by NewRequest carries Content-Type: application/json
\* exactly when the body argument is not nil, and its body is then the JSON
\* encoding of the argument (null for a nil pointer held by the interface);
\* a request built from a nil body has no body and no Content-Type, as has
\* every request of Certificates.Pickup and every GET and DELETE
C21_ContentTypeTiedToBody ==
    \A g \in Goroutines :
        Built(g) =>
            /\ calls[g].req.Header.ContentType = "application/json" <=> BodyArg(g) # Nil
            /\ calls[g].req.Header.ContentType \in {"application/json", Nil}
            /\ BodyArg(g) # Nil =>
                  /\ ~calls[g].req.Body.nil
                  /\ calls[g].req.Body.data =
                        IF BodyArg(g) = "nilptr" THEN <<"null", "\n">>
                        ELSE <<"json", BodyArg(g), "\n">>
            /\ BodyArg(g) = Nil => Bodiless(g)
            /\ calls[g].op = "Certificates.Pickup" => Bodiless(g)
            /\ calls[g].op \in ServiceOps /\ calls[g].req.Method \in {"GET", "DELETE"} =>
                  Bodiless(g)

\* Certificates.Issue built a request from a request struct: it carries the
\* struct's encoding and Content-Type
C21_Witness ==
    \E g \in Goroutines :
        /\ Built(g)
        /\ calls[g].op = "Certificates.Issue"
        /\ calls[g].body = "req"
        /\ calls[g].req.Header.ContentType = "application/json"
        /\ calls[g].req.Body.data = <<"json", "req", "\n">>

\* the query of the request call g built is the encoding of the fields its
\* options hold now
QueryFromOptions(g) ==
    Built(g) /\ calls[g].op \in ListOps =>
        RawQuery(g) = IF calls[g].opts.isNil THEN <<>>
                      ELSE Encode(QueryOf(calls[g].op, calls[g].opts))

\* C22: from the moment a service method is entered until the caller has taken
\* its return values, on success and on error, no step changes the request
\* struct, the options struct or the ID strings it was given, and the query of
\* the request it built depends only on the fields the options hold
C22_InputsUnchanged ==
    [][\A g \in Goroutines :
          /\ calls[g].pc # "idle" /\ calls'[g].pc # "idle" =>
                /\ calls'[g].id1 = calls[g].id1
                /\ calls'[g].id2 = calls[g].id2
                /\ calls'[g].body = calls[g].body
                /\ calls'[g].opts = calls[g].opts
          /\ QueryFromOptions(g)']_vars

\* the caller's second call, a Certificates.Search with a negative Offset,
\* returned an error and the options still hold what the caller wrote
C22_Witness ==
    \E g \in Goroutines :
        /\ started = 2
        /\ Returned(g)
        /\ calls[g].op = "Certificates.Search"
        /\ IsErr(calls[g].out.err)
        /\ calls[g].opts.Offset = 0 - 1
        /\ calls[g].opts.Limit = 1
        /\ calls[g].opts.Status = "active"

\* C23: two calls of different operations never give requests with the same
\* HTTP verb and the same URL path, whatever their ID arguments
C23_OneToOneEndpoints ==
    \A g \in Goroutines, h \in Goroutines :
        Built(g) /\ Built(h) /\ calls[g].op # calls[h].op =>
            ~ /\ calls[g].req.Method = calls[h].req.Method
              /\ calls[g].req.URL.Path = calls[h].req.URL.Path

\* "mpki/api/v1/"
APIPrefix == <<"mpki", "/", "api", "/">> \o APIVersion \o <<"/">>

\* the text s begins with the text p
StartsWith(s, p) == Len(s) >= Len(p) /\ SubSeq(s, 1, Len(p)) = p

\* C24: for every operation and every ID argument the request goes to the
\* scheme and host of the client's base URL, its path begins with the base
\* path followed by mpki/api/v1/, and an ID adds no query parameter: the
\* operations without options send an empty query
C24_UnderAPIPrefix ==
    \A g \in Goroutines :
        Built(g) /\ calls[g].op \in ServiceOps =>
            /\ calls[g].req.URL.Scheme = client.BaseURL.Scheme
            /\ calls[g].req.URL.Host = client.BaseURL.Host
            /\ StartsWith(calls[g].req.URL.Path, calls[g].basePath \o APIPrefix)
            /\ calls[g].op \notin ListOps =>
                  /\ calls[g].req.URL.RawQuery = <<>>
                  /\ ~calls[g].req.URL.ForceQuery

\* call g returned from Do: the request was built and handed to the transport
DoReturned(g) == Returned(g) /\ calls[g].outcome.kind # "none"

\* the status of the response of call g is in 200..299
Is2xx(g) == calls[g].outcome.status \in 200..299

\* v is nil, or the body is empty, or the body decodes into v
NothingToDecodeOrDecodes(g) ==
    \/ TargetOf(calls[g].op) = Nil
    \/ calls[g].outcome.body.kind = "empty"
    \/ FitsResult(calls[g].outcome.body, TargetOf(calls[g].op))

\* C25 as stated: Do returns a nil error exactly when the transport returned
\* a response, its status is in 200..299 and v is nil, the body is empty or
\* the body decodes into v; every other status gives an APIError or an
\* HTTPError, and a 2xx response never does
C25_SuccessIffResponse2xxDecodes ==
    \A g \in Goroutines :
        DoReturned(g) =>
            /\ ~IsErr(calls[g].out.err) <=>
                  /\ calls[g].outcome.kind = "response"
                  /\ Is2xx(g)
                  /\ NothingToDecodeOrDecodes(g)
            /\ calls[g].outcome.kind = "response" /\ ~Is2xx(g) =>
                  calls[g].out.err.type \in {"APIError", "HTTPError"}
            /\ calls[g].outcome.kind = "response" /\ Is2xx(g) =>
                  calls[g].out.err.type \notin {"APIError", "HTTPError"}

\* C25: Do returns a nil error exactly when the transport returned a response,
\* its body was read to the end, its status is in 200..299 and v is nil, the
\* body is empty or the body decodes into v; every status outside 200..299
\* whose body was read, 1xx and 3xx included, gives an APIError or an
\* HTTPError; a 2xx response never does; a body that cannot be read gives the
\* read error whatever the status
C25_ExactSuccessCondition ==
    \A g \in Goroutines :
        DoReturned(g) =>
            /\ ~IsErr(calls[g].out.err) <=>
                  /\ calls[g].outcome.kind = "response"
                  /\ calls[g].outcome.readOK
                  /\ Is2xx(g)
                  /\ NothingToDecodeOrDecodes(g)
            /\ calls[g].outcome.kind = "response" /\ calls[g].outcome.readOK /\ ~Is2xx(g) =>
                  calls[g].out.err.type \in {"APIError", "HTTPError"}
            /\ calls[g].outcome.kind = "response" /\ Is2xx(g) =>
                  calls[g].out.err.type \notin {"APIError", "HTTPError"}
            /\ calls[g].outcome.kind = "response" /\ ~calls[g].outcome.readOK =>
                  calls[g].out.err.type = "read"

\* a 301 whose body was read came back as an HTTPError
C25_Witness ==
    \E g \in Goroutines :
        /\ DoReturned(g)
        /\ calls[g].outcome.kind = "response"
        /\ calls[g].outcome.status = 301
        /\ calls[g].outcome.readOK
        /\ calls[g].out.err.type = "HTTPError"

\* the operations that return (result pointer, *Response, error)
PointerResultOps == (ServiceOps \ NoResultOps) \ {"BusinessUnits.ListAdmins"}

\* C26: for every service method that returns (result pointer, *Response,
\* error) the result is non-nil exactly when the error is nil, whether the
\* request could not be built, the transport failed, or a response came back;
\* a partially decoded result is never returned together with an error
C26_ResultXorError ==
    \A g \in Goroutines :
        Returned(g) /\ calls[g].op \in PointerResultOps =>
            /\ ~calls[g].out.result.nil <=> ~IsErr(calls[g].out.err)
            /\ calls[g].out.result.state = "partial" => ~IsErr(calls[g].out.err)
            /\ IsErr(calls[g].out.err) => calls[g].out.result.state = "none"

\* Certificates.Issue returned a decode error and a nil result for a 200 whose
\* body holds a member of the wrong type, decoded in part
C26_Witness ==
    \E g \in Goroutines :
        /\ GotResponse(g)
        /\ calls[g].op = "Certificates.Issue"
        /\ calls[g].outcome.status = 200
        /\ calls[g].outcome.body.payload = "mistyped"
        /\ calls[g].out.err.type = "decode"
        /\ calls[g].out.result.nil

\* C27 as stated: the returned *Response is nil exactly when the request could
\* not be built or the transport returned no response; whenever a response
\* was received the *Response is non-nil, carries its status, and its Body
\* holds the bytes of the response
C27_ResponseWithBody ==
    \A g \in Goroutines :
        Returned(g) =>
            /\ ~calls[g].out.resp.present <=>
                  ~calls[g].built \/ calls[g].outcome.kind = "error"
            /\ calls[g].outcome.kind = "response" =>
                  /\ calls[g].out.resp.present
                  /\ calls[g].out.resp.StatusCode = calls[g].outcome.status
                  /\ calls[g].out.resp.read

\* C27: the returned *Response is nil exactly when the request could not be
\* built or the transport returned no response; whenever a response was
\* received the *Response is non-nil and carries its status; its Body holds
\* the bytes of the response when the body was read to its end (success,
\* non-2xx status, decode failure) and is left nil when reading it failed
C27_ResponsePresence ==
    \A g \in Goroutines :
        Returned(g) =>
            /\ ~calls[g].out.resp.present <=>
                  ~calls[g].built \/ calls[g].outcome.kind = "error"
            /\ calls[g].outcome.kind = "response" =>
                  /\ calls[g].out.resp.present
                  /\ calls[g].out.resp.StatusCode = calls[g].outcome.status
                  /\ calls[g].out.resp.read <=> calls[g].outcome.readOK

\* BusinessUnits.Delete returned the response of a 404 together with its error
C27_Witness ==
    \E g \in Goroutines :
        /\ GotResponse(g)
        /\ calls[g].op = "BusinessUnits.Delete"
        /\ calls[g].outcome.status = 404
        /\ IsErr(calls[g].out.err)
        /\ calls[g].out.resp.present
        /\ calls[g].out.resp.StatusCode = 404
        /\ calls[g].out.resp.read

\* the constructed client once NewRequest has normalised its base path
Normalised(c) == IF NeedsSlash(c) THEN AppendSlash(c) ELSE c

\* the request NewRequest builds for the arguments of call g on the client as
\* NewClient returned it, whatever was called before
FirstCallRequest(g) ==
    BuildRequest(Normalised(made.c), calls[g].ctx, calls[g].method, calls[g].urlStr,
                 BodyArg(g)).req

\* the URL (query apart) and the headers of the request of call g are those
\* of a first call with the same arguments
SameAsFirstCall(g) ==
    Built(g) =>
        /\ [calls[g].req.URL EXCEPT !.RawQuery = <<>>] =
              [FirstCallRequest(g).URL EXCEPT !.RawQuery = <<>>]
        /\ calls[g].req.Header = FirstCallRequest(g).Header

\* C28: the URL and the headers NewRequest produces for given arguments are
\* the same on the first call as after any earlier calls, and the client is
\* at every moment either as NewClient left it or that with one "/" appended
\* to its BaseURL.Path
C28_HistoryIndependence ==
    /\ client \in {made.c, Normalised(made.c)}
    /\ \A g \in Goroutines : SameAsFirstCall(g)

\* the API keys of the clients
APIKeys == {cfg.apiKey : cfg \in Configs}

\* what NewRequest returns for the arguments of call g on a client that
\* differs from the constructed one in its API key only
KeyedRequest(g, k) ==
    BuildRequest([Normalised(made.c) EXCEPT !.apiKey = k], calls[g].ctx, calls[g].method,
                 calls[g].urlStr, BodyArg(g))

\* k is no part of the sequence of tokens s
KeyAbsent(k, s) == \A i \in DOMAIN s : s[i] # k

\* the request of call g and the request other built with key k differ in
\* the X-API-Key header only, and the key of the client is in neither the URL
\* nor the body
SameButKey(g, k, other) ==
    /\ other.err = Nil
    /\ other.req.Method = calls[g].req.Method
    /\ [other.req.URL EXCEPT !.RawQuery = <<>>] = [calls[g].req.URL EXCEPT !.RawQuery = <<>>]
    /\ QueryFromOptions(g)
    /\ other.req.Body = calls[g].req.Body
    /\ [other.req.Header EXCEPT !.XAPIKey = Nil] = [calls[g].req.Header EXCEPT !.XAPIKey = Nil]
    /\ other.req.Header.XAPIKey = k
    /\ calls[g].req.Header.XAPIKey = client.apiKey
    /\ KeyAbsent(client.apiKey, calls[g].req.URL.Scheme)
    /\ KeyAbsent(client.apiKey, calls[g].req.URL.Host)
    /\ KeyAbsent(client.apiKey, calls[g].req.URL.Path)
    /\ KeyAbsent(client.apiKey, calls[g].req.URL.RawQuery)
    /\ KeyAbsent(client.apiKey, calls[g].req.URL.Fragment)
    /\ KeyAbsent(client.apiKey, calls[g].req.Body.data)

\* the error value err a call returned is made of the outcome of the exchange
\* alone and does not hold the key k
ErrorWithoutKey(g, k, err) ==
    IF err.type \in {"APIError", "HTTPError"}
    THEN err = checkError(calls[g].outcome.status, calls[g].outcome.body)
    ELSE err.msg # k

\* C29: a client with another API key builds, for the same call, a request
\* that differs in the X-API-Key header only; the key is in neither the URL,
\* the body nor the error the call returns
C29_KeyOnlyInHeader ==
    \A g \in Goroutines : \A k \in APIKeys :
        /\ Built(g) => SameButKey(g, k, KeyedRequest(g, k))
        /\ Returned(g) /\ ~calls[g].built =>
              calls[g].out = BuildFailure(KeyedRequest(g, k).err)
        /\ Returned(g) /\ IsErr(calls[g].out.err) =>
              ErrorWithoutKey(g, client.apiKey, calls[g].out.err)

C29_Witness ==
    \E g \in Goroutines :
        /\ Returned(g)
        /\ calls[g].built
        /\ client.apiKey = "key-2"
        /\ calls[g].req.Header.XAPIKey = "key-2"
        /\ KeyedRequest(g, "key-1").req.Header.XAPIKey = "key-1"
        /\ IsErr(calls[g].out.err)

\* C30: no call of a service method writes anything to standard output or to
\* a log
C30_NoSideChannelOutput ==
    \A g \in Goroutines : calls[g].stdout = <<>>

====
